---------------------------- MODULE Spec2Model ----------------------------
(***************************************************************************)
(* LawYaar: the retrieval-augmented document pipeline.                     *)
(*                                                                         *)
(*   - CacheManager (src/utils/cache_manager.py): manifest of the corpus   *)
(*     and the change check that gates re-indexing.                        *)
(*   - the offline indexing flow (src/nodes.py, src/flow.py):              *)
(*     DocumentIngestionNode >> VectorIndexCreationNode.                   *)
(*   - the online research flow (src/nodes.py, src/nodes_agents.py).       *)
(*                                                                         *)
(* Spec is the offline side: the documents directory, the manifest file,   *)
(* the collection and one indexing run after another, with the directory   *)
(* changing under it.  QuerySpec is the online side: one query from its    *)
(* classification to the final response, the tasks of the two parallel     *)
(* stages starting in order and ending in any order.                       *)
(* TreeSpec is the offline flow over a directory with a subdirectory.      *)
(* SearchSpec and ChunkSpec apply one function to drawn inputs: the search *)
(* of the vector database (src/utils/vector_db.py) and the chunker         *)
(* (src/utils/chunking.py).  CharacterSpec follows the while loop of the   *)
(* chunker's character fallback one turn at a time.                        *)
(***************************************************************************)
EXTENDS Integers, Sequences, FiniteSets, TLC

(***************************************************************************)
(* Bounds of the model.                                                    *)
(***************************************************************************)
\* number of .txt paths the documents directory can hold
MaxFiles == 2
\* number of changes the environment makes to the directory in one behaviour
MaxEdits == 2
\* records per add_documents call; stands for the 5000 of nodes.py:138,
\* scaled down so that a build has more than one batch
BATCH_SIZE == 1

\* records of the collection a search runs over
MaxStored == 3
\* largest distance of a record to the query, in halves (distances 0, 0.5, ...)
MaxDistance == 3
\* pieces a document body is put together from
MaxPieces == 4
\* config.py:29-30 sets CHUNK_SIZE = 800 and OVERLAP_SIZE = 150; scaled down
\* to the length of the model's texts
CHUNK_SIZE == 8
OVERLAP_SIZE == 2
\* number of documents the index holds chunks of
MaxDocs == 2
\* number of hits a search returns
MaxHits == 2
\* config.py:76-77 sets both to 10; scaled down so that the documents of one
\* query can outnumber them
MAX_PARALLEL_PRUNING == 1
MAX_PARALLEL_READING == 1

\* the byte values of file contents
Bytes == {0, 1}
\* the modification times a file can carry
TimeStamps == {0, 1}

\* paths under the documents directory: 1..MaxFiles end in ".txt", OtherFile
\* does not
OtherFile == 0
Paths == 0..MaxFiles

\* dict.get of a key the dictionary lacks
None == <<"None">>

VARIABLES
    fs,          \* documents directory: existing path -> [content, mtime, readable]
    cacheFile,   \* the manifest file chroma_db/.cache_manifest.json: [kind, text]
    collection,  \* the persistent collection: [exists, ids]
    pc,          \* position of the offline flow
    shared,      \* the shared store of the offline flow
    loc,         \* the running node's prep_res, exec results and loop variables
    check,       \* results of the has_changes calls made since the last other step
    hist,        \* history of the run and of the directory (for stating properties)
    qpc,         \* position of the online flow
    qshared,     \* the shared store of the online flow
    qtasks,      \* the tasks of the running AsyncParallelBatchNode
    qhist,       \* history of the query run (for stating properties)
    progress,    \* the progress tracker: document_statuses and what its callbacks saw
    call,        \* a function of the library applied on its own: its name and arguments
    result       \* what the call returned

ovars == <<fs, cacheFile, collection, pc, shared, loc, check, hist>>
qvars == <<qpc, qshared, qtasks, qhist, progress>>
fvars == <<call, result>>
vars == <<ovars, qvars, fvars>>

(***************************************************************************)
(* Sequences helpers.                                                      *)
(***************************************************************************)
Range(s) == {s[i] : i \in 1..Len(s)}

RECURSIVE Flatten(_)
Flatten(ss) == IF ss = <<>> THEN <<>> ELSE Head(ss) \o Flatten(Tail(ss))

\* the elements of a set of integers in ascending order
RECURSIVE SortedSeq(_)
SortedSeq(S) ==
    IF S = {} THEN <<>>
    ELSE LET m == CHOOSE x \in S : \A y \in S : x <= y
         IN  <<m>> \o SortedSeq(S \ {m})

\* the contents a file can have: empty, or one byte
Contents == {<<>>} \cup {<<b>> : b \in Bytes}

Files == [content : Contents, mtime : TimeStamps, readable : BOOLEAN]

(***************************************************************************)
(* CacheManager                                                            *)
(***************************************************************************)
EndsWithTxt(p) == p # OtherFile

\* hexdigest() of the content: SHA-256 taken as collision free, and never the
\* empty string
Sha256Hex(content) == <<"sha256">> \o content

\* _calculate_file_hash with the modification time hashed along with the bytes
CalculateFileHashWithTime(f) ==
    IF f.readable THEN Sha256Hex(f.content) \o <<f.mtime>> ELSE <<>>

\* _calculate_file_hash: the digest, "" when the file cannot be opened or read
CalculateFileHash(f) == IF f.readable THEN Sha256Hex(f.content) ELSE <<>>

\* os.path.basename of a path of the documents directory: the paths
\* MaxFiles + 1 .. 2 * MaxFiles are in a subdirectory and carry the names of
\* the paths 1 .. MaxFiles
FileName(p) == IF p > MaxFiles THEN p - MaxFiles ELSE p

\* generate_manifest: one entry per .txt file of the directory
GenerateManifest(dir, use_hash) ==
    LET found == {p \in DOMAIN dir : EndsWithTxt(p)}
    IN  [p \in found |->
            [size     |-> Len(dir[p].content),
             modified |-> dir[p].mtime,
             name     |-> FileName(p),
             hash     |-> IF use_hash THEN CalculateFileHash(dir[p]) ELSE None]]

\* json.dump(manifest): the object's members in the order of the dictionary
JsonDump(manifest) ==
    LET keys == SortedSeq(DOMAIN manifest)
    IN  [i \in 1..Len(keys) |-> <<keys[i], manifest[keys[i]]>>]

\* json.load: the dictionary of the members
JsonLoad(text) ==
    [p \in {text[i][1] : i \in 1..Len(text)} |->
        (CHOOSE m \in Range(text) : m[1] = p)[2]]

EmptyManifest == [p \in {} |-> <<>>]

\* load_cached_manifest: {} when the file is missing or does not parse
LoadCachedManifest(file) ==
    IF file.kind = "json" THEN JsonLoad(file.text) ELSE EmptyManifest

\* has_changes, as <<changed, reason>>
HasChanges(file, dir, use_hash, quick_check) ==
    LET cached  == LoadCachedManifest(file)
        current == GenerateManifest(dir, IF quick_check THEN FALSE ELSE use_hash)
        nCur    == Cardinality(DOMAIN current)
        nOld    == Cardinality(DOMAIN cached)
        added   == DOMAIN current \ DOMAIN cached
        removed == DOMAIN cached \ DOMAIN current
        modified ==
            {p \in DOMAIN current \cap DOMAIN cached :
                \/ current[p].size # cached[p].size
                \/ /\ current[p].size = cached[p].size
                   /\ IF use_hash THEN current[p].hash # cached[p].hash
                                  ELSE current[p].modified # cached[p].modified}
    IN  IF DOMAIN cached = {} THEN <<TRUE, "No cache found">>
        ELSE IF quick_check THEN
            IF nCur # nOld THEN <<TRUE, "Number of files changed">>
                           ELSE <<FALSE, "Quick check passed">>
        ELSE IF nCur # nOld THEN <<TRUE, "Number of files changed">>
        ELSE IF added # {} THEN <<TRUE, "Added files">>
        ELSE IF removed # {} THEN <<TRUE, "Removed files">>
        ELSE IF modified # {} THEN <<TRUE, "Modified files">>
        ELSE <<FALSE, "No changes detected">>

\* save_manifest: the file after the call.  The write can fail (the error is
\* logged, not raised): before the file is opened, which leaves it as it was,
\* or after open(..., 'w') has truncated it, which leaves a file that does
\* not parse.
SaveManifest(file, manifest, outcome) ==
    CASE outcome = "ok"       -> [kind |-> "json", text |-> JsonDump(manifest)]
      [] outcome = "not_open" -> file
      [] outcome = "partial"  -> [kind |-> "partial", text |-> <<>>]

SaveOutcomes == {"ok", "not_open", "partial"}

\* update_cache
UpdateCache(file, dir, use_hash, outcome) ==
    SaveManifest(file, GenerateManifest(dir, use_hash), outcome)

(***************************************************************************)
(* VectorDatabase                                                          *)
(***************************************************************************)
\* collection_exists without the count: an empty collection counts as existing
CollectionExistsAnyCount(coll) == coll.exists

\* collection_exists: the collection exists and holds at least one record
CollectionExists(coll) == coll.exists /\ Cardinality(coll.ids) > 0

\* create_or_get_collection that always makes a new empty collection
CreateCollectionAfresh(coll) ==
    [exists |-> TRUE, ids |-> {}]

\* create_or_get_collection: the existing collection, or a new empty one
CreateOrGetCollection(coll) ==
    IF coll.exists THEN coll ELSE [exists |-> TRUE, ids |-> {}]

\* add_documents: collection.add of the records under their ids
AddDocuments(coll, ids) ==
    [CreateOrGetCollection(coll) EXCEPT !.ids = @ \cup Range(ids)]

(***************************************************************************)
(* DocumentIngestionNode                                                   *)
(***************************************************************************)

\* prep: the .txt paths that os.walk finds
IngestionPrep(dir) == SortedSeq({p \in DOMAIN dir : EndsWithTxt(p)})

\* LegalFileProcessor.process_file: the text of the file, or an 'error' entry
\* with empty content when the file cannot be read (or is gone)
ProcessFile(dir, p) ==
    IF p \in DOMAIN dir /\ dir[p].readable
    THEN [file_path |-> p, file_name |-> FileName(p), error |-> FALSE,
          content |-> dir[p].content]
    ELSE [file_path |-> p, file_name |-> FileName(p), error |-> TRUE,
          content |-> <<>>]

(***************************************************************************)
(* VectorIndexCreationNode                                                 *)
(***************************************************************************)
\* prep, the decision: the cached index is used when the collection has
\* records and has_changes(use_hash=True, quick_check=False) reports none
UseCachedIndex(coll, file, dir) ==
    CollectionExists(coll) /\ ~HasChanges(file, dir, TRUE, FALSE)[1]

\* prep, lines 95-98: the processed files to chunk
DocumentsToChunk(processed_files) ==
    SelectSeq(processed_files, LAMBDA f : ~f.error /\ f.content # <<>>)

\* exec: the chunks of one document, numbered from 0, each carrying the
\* file's name.  The chunker is taken by its interface here: one chunk per
\* byte of content.
ChunkDocument(file_info) ==
    [i \in 1..Len(file_info.content) |->
        [text        |-> <<file_info.content[i]>>,
         file_name   |-> file_info.file_name,
         chunk_index |-> i - 1]]

\* post, lines 128-130: all_chunks
AllChunks(docs) == Flatten([i \in 1..Len(docs) |-> ChunkDocument(docs[i])])

\* post, lines 159-160: the id of a chunk, f"{file_name}_{chunk_index}"
ChunkId(chunk) == <<chunk.file_name, "_", chunk.chunk_index>>

\* all_chunks[i:i + BATCH_SIZE + 1]: a batch that takes the first chunk of
\* the next one too
BatchOfWithNext(all_chunks, i) ==
    SubSeq(all_chunks, i + 1,
           IF i + BATCH_SIZE + 1 < Len(all_chunks) THEN i + BATCH_SIZE + 1
                                                   ELSE Len(all_chunks))

\* post, line 155: all_chunks[i:i + BATCH_SIZE], i counted from 0
BatchOf(all_chunks, i) ==
    SubSeq(all_chunks, i + 1,
           IF i + BATCH_SIZE < Len(all_chunks) THEN i + BATCH_SIZE
                                               ELSE Len(all_chunks))

(***************************************************************************)
(* The online research flow: text helpers.                                 *)
(***************************************************************************)
\* str.isspace() of a character
IsSpace(c) == c \in {" ", "\n"}

\* str.strip() of a text held as a sequence of characters
RECURSIVE LStrip(_)
LStrip(s) == IF s # <<>> /\ IsSpace(Head(s)) THEN LStrip(Tail(s)) ELSE s

RECURSIVE RStrip(_)
RStrip(s) ==
    IF s # <<>> /\ IsSpace(s[Len(s)]) THEN RStrip(SubSeq(s, 1, Len(s) - 1)) ELSE s

Strip(s) == RStrip(LStrip(s))

\* str.upper()
UpperChar(c) ==
    CASE c = "y" -> "Y"
      [] c = "e" -> "E"
      [] c = "s" -> "S"
      [] c = "n" -> "N"
      [] c = "o" -> "O"
      [] OTHER   -> c

Upper(s) == [i \in 1..Len(s) |-> UpperChar(s[i])]

\* str.startswith
StartsWith(s, prefix) ==
    Len(s) >= Len(prefix) /\ SubSeq(s, 1, Len(prefix)) = prefix

(***************************************************************************)
(* The online research flow: inputs from outside.                          *)
(***************************************************************************)
\* file names of the indexed documents; NoName is a missing or empty
\* 'file_name' in a hit's metadata
NoName == 0
DocNames == 1..MaxDocs

\* chunk texts: the empty text and one that is not
ChunkTexts == {<<>>, <<"t">>}

\* what a search can return: up to MaxHits hits
Hits == [file_name : DocNames \cup {NoName}, text : ChunkTexts]
HitLists == UNION {[1..n -> Hits] : n \in 0..MaxHits}

\* what the judge answers, when it answers
JudgeResponses == {<<" ", "y", "e", "s", " ">>, <<"N", "O">>}
\* the outcome of a call of the language model that raises
Raises == <<"raises">>
JudgeOutcomes == JudgeResponses \cup {Raises}

\* the queries: the empty string and one that is not
Queries == {<<>>, <<"q">>}

(***************************************************************************)
(* QueryClassificationNode                                                 *)
(***************************************************************************)
\* the outcomes of the classifier call: a response that parses with every
\* required field, one that does not, an exception, and a response that
\* parses with every required field but whose confidence is not a number
ClassifierOutcomes == {"valid", "malformed", "raises", "mistyped"}

\* classify_legal_query_type
ClassifyLegalQueryType(outcome) ==
    CASE outcome = "valid"     -> [query_type |-> "parsed",  reasoning |-> "from the classifier"]
      [] outcome = "malformed" -> [query_type |-> "general", reasoning |-> "Classification parsing failed"]
      [] outcome = "raises"    -> [query_type |-> "general", reasoning |-> "Classification agent failed"]
      [] outcome = "mistyped"  -> [query_type |-> "parsed",  reasoning |-> "from the classifier"]

\* exec's log line formats the classification's confidence with :.2f, which
\* raises for a confidence that is not a number
ConfidenceFormats(outcome) == outcome # "mistyped"

\* post's fallback when exec returned None
ClassificationFallback ==
    [query_type |-> "general", reasoning |-> "Classification failed"]

\* the default of shared.get("query_classification", ...)
NoClassification ==
    [query_type |-> "general", reasoning |-> "No classification available"]

(***************************************************************************)
(* DocumentExtractionNode                                                  *)
(***************************************************************************)
\* exec: the set of the hits' file names that are truthy
UniqueDocs(retrieved_chunks) ==
    {retrieved_chunks[i].file_name : i \in 1..Len(retrieved_chunks)} \ {NoName}

\* list(unique_docs): the orders a set can be listed in
Listings(S) ==
    {l \in [1..Cardinality(S) -> S] : \A i, j \in 1..Cardinality(S) : i # j => l[i] # l[j]}

(***************************************************************************)
(* PruningAgentNode                                                        *)
(***************************************************************************)
\* prep_async, lines 132-138: the hits of one document, in the order retrieved
ChunksByDocument(retrieved_chunks, unique_documents, doc) ==
    SelectSeq(retrieved_chunks,
              LAMBDA c : c.file_name # NoName /\ c.file_name = doc
                         /\ doc \in Range(unique_documents))

\* prep_async: one item per unique document
PruningPrep(user_query, unique_documents, retrieved_chunks) ==
    IF unique_documents = <<>> \/ user_query = <<>> THEN <<>>
    ELSE [i \in 1..Len(unique_documents) |->
            [doc    |-> unique_documents[i],
             chunks |-> ChunksByDocument(retrieved_chunks, unique_documents,
                                         unique_documents[i])]]

\* exec_async, lines 157-161: the texts of the chunks that have one
ChunkTextsOf(chunks) ==
    LET withText == SelectSeq(chunks, LAMBDA c : c.text # <<>>)
    IN  [i \in 1..Len(withText) |-> withText[i].text]

\* the judge asked for every item, whatever its chunks hold
JudgeIsAlwaysAsked(item) == TRUE

\* exec_async, lines 152-165: whether the judge is asked at all
JudgeIsAsked(item) == item.chunks # <<>> /\ ChunkTextsOf(item.chunks) # <<>>

\* exec_async, lines 152-165: the result without a judge call
PruningWithoutJudge(item) ==
    IF item.chunks = <<>>
    THEN [doc |-> item.doc, relevant |-> FALSE, explanation |-> <<"No retrieved chunks">>]
    ELSE [doc |-> item.doc, relevant |-> FALSE, explanation |-> <<"No chunk text">>]

\* a judge call that raises keeps the document
PruningWithJudgeFailOpen(item, outcome) ==
    IF outcome = Raises
    THEN [doc |-> item.doc, relevant |-> TRUE, explanation |-> <<"Error">>]
    ELSE [doc |-> item.doc,
          relevant |-> StartsWith(Upper(Strip(outcome)), <<"Y", "E", "S">>),
          explanation |-> Strip(outcome)]

\* exec_async, lines 196-204: the result of the judge call
PruningWithJudge(item, outcome) ==
    IF outcome = Raises
    THEN [doc |-> item.doc, relevant |-> FALSE, explanation |-> <<"Error">>]
    ELSE [doc |-> item.doc,
          relevant |-> StartsWith(Upper(Strip(outcome)), <<"Y", "E", "S">>),
          explanation |-> Strip(outcome)]

\* post_async, lines 207-216: pruning_results, a dictionary in insertion order
PruningResults(exec_res_list) ==
    [i \in 1..Len(exec_res_list) |->
        <<exec_res_list[i].doc,
          [relevant    |-> exec_res_list[i].relevant,
           explanation |-> exec_res_list[i].explanation]>>]

\* post_async, lines 208-216: relevant_documents
RelevantDocuments(exec_res_list) ==
    LET kept == SelectSeq(exec_res_list, LAMBDA r : r.relevant)
    IN  [i \in 1..Len(kept) |-> kept[i].doc]

(***************************************************************************)
(* ReadingAgentNode                                                        *)
(***************************************************************************)
\* what exec_async finds at DOCUMENTS_DIR/document_name
FileStates == {"missing", "unreadable", "ok"}

ExtractOutcomes == {"answers", "raises"}

\* prep_async: one item per relevant document
ReadingPrep(user_query, relevant_documents, classification) ==
    IF relevant_documents = <<>> \/ user_query = <<>> THEN <<>>
    ELSE [i \in 1..Len(relevant_documents) |->
            [doc |-> relevant_documents[i], classification |-> classification]]

\* exec_async, lines 324-327: the result when the file does not exist
ReadingWithoutFile(item) ==
    [doc |-> item.doc, summary |-> "Unable to read content", metadata |-> "empty"]

\* process_file's metadata: {} when the file could not be read
MetadataOf(file_state) == IF file_state = "ok" THEN "extracted" ELSE "empty"

\* exec_async, lines 346-362: the result of the extraction call
ReadingWithCall(item, file_state, outcome) ==
    IF outcome = "raises"
    THEN [doc |-> item.doc, summary |-> "Error reading", metadata |-> MetadataOf(file_state)]
    ELSE [doc |-> item.doc, summary |-> "extraction", metadata |-> MetadataOf(file_state)]

\* post_async: document_summaries, a dictionary in insertion order
DocumentSummaries(exec_res_list) ==
    [i \in 1..Len(exec_res_list) |-> <<exec_res_list[i].doc, exec_res_list[i].summary>>]

\* post_async: document_metadata
DocumentMetadata(exec_res_list) ==
    [i \in 1..Len(exec_res_list) |-> <<exec_res_list[i].doc, exec_res_list[i].metadata>>]

(***************************************************************************)
(* AggregationAgentNode                                                    *)
(***************************************************************************)
SynthesisOutcomes == {"answers", "raises"}

NoCasesMessage == [kind |-> "no relevant legal cases", cases |-> <<>>]

\* no short-circuit
SynthesisIsAlwaysCalled(document_summaries) == TRUE

\* exec, line 481: the short-circuit for an empty summary map
SynthesisIsCalled(document_summaries) == document_summaries # <<>>

\* a footer that leaves out the cases whose summary is an error string
AggregationWithCallSkippingErrors(document_summaries, outcome) ==
    IF outcome = "raises"
    THEN [kind |-> "error synthesizing", cases |-> <<>>]
    ELSE LET read == SelectSeq(document_summaries, LAMBDA e : e[2] = "extraction")
         IN  [kind |-> "synthesis",
              cases |-> [i \in 1..Len(read) |-> read[i][1]]]

\* exec, lines 489-547: the response when the synthesis call is made; the
\* footer lists the cases in the order of document_summaries
AggregationWithCall(document_summaries, outcome) ==
    IF outcome = "raises"
    THEN [kind |-> "error synthesizing", cases |-> <<>>]
    ELSE [kind |-> "synthesis",
          cases |-> [i \in 1..Len(document_summaries) |-> document_summaries[i][1]]]

(***************************************************************************)
(* asyncio.gather, as AsyncParallelBatchNode._exec uses it                 *)
(***************************************************************************)
NoResult == [doc |-> NoName]

\* results kept in the order the tasks end
GatherStoreAsCompleted(results, i, r) ==
    LET free == {k \in 1..Len(results) : results[k].doc = NoName}
        k    == CHOOSE k \in free : \A j \in free : k <= j
    IN  [results EXCEPT ![k] = r]

\* gather's result list: the result of task i is put at place i
GatherStore(results, i, r) == [results EXCEPT ![i] = r]

\* the await of gather: every task is done
GatherJoined(tasks) == \A i \in 1..Len(tasks.status) : tasks.status[i] = "done"

\* one task per item: where its coroutine is, what it holds across its await,
\* and its place in gather's result list
NewTasks(items) ==
    [items   |-> items,
     status  |-> [i \in 1..Len(items) |-> "pending"],
     held    |-> [i \in 1..Len(items) |-> "nothing"],
     results |-> [i \in 1..Len(items) |-> NoResult]]

NoTasks == NewTasks(<<>>)

\* the tasks whose call of the language model is in flight
InFlight(tasks) == {i \in 1..Len(tasks.status) : tasks.status[i] = "inflight"}

\* main.py:91-102
QueryShared(user_query) ==
    [user_query           |-> user_query,
     query_classification |-> NoClassification,
     retrieved_chunks     |-> <<>>,
     unique_documents     |-> <<>>,
     pruning_results      |-> <<>>,
     relevant_documents   |-> <<>>,
     document_summaries   |-> <<>>,
     document_metadata    |-> <<>>,
     final_response       |-> [kind |-> "", cases |-> <<>>]]

NoQueryHistory ==
    [classifierCalls |-> 0,
     searchCalls     |-> 0,
     judged          |-> {},      \* documents a judge call was made for
     judgeRaised     |-> {},      \* documents whose judge call raised
     pruneStarted    |-> 0,       \* pruning tasks started
     pruneReturned   |-> 0,       \* pruning tasks that returned their verdict
     extractCalls    |-> 0,
     readStarted     |-> 0,
     readReturned    |-> 0,
     synthCalls      |-> 0,
     synthRaised     |-> FALSE,   \* the synthesis call raised
     judgeOutcome    |-> <<>>,    \* per pruning task, what its judge call did
     readOutcome     |-> <<>>,    \* per reading task, what it found and got
     completion      |-> <<>>,    \* the tasks of the running stage, as they ended
     outOfOrder      |-> FALSE,   \* a stage's tasks ended in another order than started
     failedIn        |-> "none"]

\* no query is running
\* ProgressTracker: the status of each document being read, and per document
\* the statuses the callbacks were notified of, in order
NoProgress ==
    [document_statuses |-> [d \in {} |-> "pending"],
     notified          |-> [d \in {} |-> <<>>]]

\* update_reading_start(documents)
UpdateReadingStart(tracker, documents) ==
    [document_statuses |-> [d \in Range(documents) |-> "pending"],
     notified          |-> [d \in Range(documents) |-> <<"pending">>]]

\* update_document_status that leaves the status alone when told "error"
UpdateDocumentStatusButError(tracker, document_name, status) ==
    IF status = "error" THEN tracker
    ELSE [document_statuses |->
             [d \in DOMAIN tracker.document_statuses \cup {document_name} |->
                 IF d = document_name THEN status ELSE tracker.document_statuses[d]],
          notified |->
             [d \in DOMAIN tracker.notified \cup {document_name} |->
                 IF d = document_name
                 THEN (IF d \in DOMAIN tracker.notified THEN tracker.notified[d] ELSE <<>>)
                          \o <<status>>
                 ELSE tracker.notified[d]]]

\* update_document_status(document_name, status)
UpdateDocumentStatus(tracker, document_name, status) ==
    [document_statuses |->
        [d \in DOMAIN tracker.document_statuses \cup {document_name} |->
            IF d = document_name THEN status ELSE tracker.document_statuses[d]],
     notified |->
        [d \in DOMAIN tracker.notified \cup {document_name} |->
            IF d = document_name
            THEN (IF d \in DOMAIN tracker.notified THEN tracker.notified[d] ELSE <<>>)
                     \o <<status>>
            ELSE tracker.notified[d]]]

QueryOff ==
    /\ qpc = "off"
    /\ qshared = QueryShared(<<>>)
    /\ qtasks = NoTasks
    /\ qhist = NoQueryHistory
    /\ progress = NoProgress

(***************************************************************************)
(* State                                                                   *)
(***************************************************************************)
NoCheck == <<>>

\* main.py:28-35
EmptyShared ==
    [processed_files      |-> <<>>,
     indexing_skipped     |-> FALSE,
     total_chunks_indexed |-> 0]

NoLocals ==
    [file_paths         |-> <<>>,   \* prep_res of DocumentIngestionNode
     exec_res           |-> <<>>,   \* its exec results so far
     documents_to_chunk |-> <<>>,   \* prep_res of VectorIndexCreationNode
     all_chunks         |-> <<>>,   \* post: the consolidated chunks
     batch              |-> 0]      \* post: i of the batch loop

OfflineInit ==
    /\ fs = [p \in {} |-> <<>>]
    /\ cacheFile = [kind |-> "absent", text |-> <<>>]
    /\ collection = [exists |-> FALSE, ids |-> {}]
    /\ pc = "idle"
    /\ shared = EmptyShared
    /\ loc = NoLocals
    /\ check = NoCheck
    /\ hist = [edits       |-> 0,       \* changes made to the directory
               sinceUpdate |-> -1,      \* changes since update_cache last saved (2: two or more); -1: never saved
               lastEdit    |-> "none",  \* kind of the change, when it is the only one since
               addCalls    |-> 0,       \* add_documents calls of the run
               batches     |-> <<>>]    \* the ids given to each call that returned

\* no function is applied on its own
NoCall ==
    /\ call = [fn |-> "none"]
    /\ result = <<>>

Init == OfflineInit /\ QueryOff /\ NoCall

(***************************************************************************)
(* The environment: other processes change the documents directory.        *)
(***************************************************************************)
Edited(kind) ==
    hist' = [hist EXCEPT !.edits = @ + 1,
                         !.sinceUpdate = IF @ = -1 THEN -1
                                         ELSE IF @ < 2 THEN @ + 1 ELSE @,
                         !.lastEdit = IF hist.sinceUpdate = 0 THEN kind ELSE "none"]

EnvFrame == UNCHANGED <<cacheFile, collection, pc, shared, loc, qvars, fvars>>

\* a .txt file appears
EnvAddFile ==
    /\ hist.edits < MaxEdits
    /\ \E p \in Paths \ DOMAIN fs : \E f \in Files :
          /\ EndsWithTxt(p)
          /\ fs' = [q \in DOMAIN fs \cup {p} |-> IF q = p THEN f ELSE fs[q]]
    /\ Edited("add")
    /\ check' = NoCheck
    /\ EnvFrame

\* a .txt file is deleted
EnvRemoveFile ==
    /\ hist.edits < MaxEdits
    /\ \E p \in DOMAIN fs :
          /\ EndsWithTxt(p)
          /\ fs' = [q \in DOMAIN fs \ {p} |-> fs[q]]
    /\ Edited("remove")
    /\ check' = NoCheck
    /\ EnvFrame

\* one byte of a .txt file is overwritten with another value: the size stays,
\* the modification time may or may not move
EnvAlterByte ==
    /\ hist.edits < MaxEdits
    /\ \E p \in DOMAIN fs : \E i \in 1..Len(fs[p].content) :
       \E b \in Bytes \ {fs[p].content[i]} : \E t \in TimeStamps :
          /\ EndsWithTxt(p)
          /\ fs' = [fs EXCEPT ![p].content[i] = b, ![p].mtime = t]
    /\ Edited("alter")
    /\ check' = NoCheck
    /\ EnvFrame

\* a .txt file is rewritten with content of another size
EnvResizeFile ==
    /\ hist.edits < MaxEdits
    /\ \E p \in DOMAIN fs : \E c \in Contents : \E t \in TimeStamps :
          /\ EndsWithTxt(p)
          /\ Len(c) # Len(fs[p].content)
          /\ fs' = [fs EXCEPT ![p].content = c, ![p].mtime = t]
    /\ Edited("resize")
    /\ check' = NoCheck
    /\ EnvFrame

\* only the modification time of a .txt file moves (touch)
EnvTouchFile ==
    /\ hist.edits < MaxEdits
    /\ \E p \in DOMAIN fs : \E t \in TimeStamps \ {fs[p].mtime} :
          /\ EndsWithTxt(p)
          /\ fs' = [fs EXCEPT ![p].mtime = t]
    /\ Edited("touch")
    /\ check' = NoCheck
    /\ EnvFrame

\* the permissions of a .txt file change: it becomes readable or unreadable
EnvChmodFile ==
    /\ hist.edits < MaxEdits
    /\ \E p \in DOMAIN fs :
          /\ EndsWithTxt(p)
          /\ fs' = [fs EXCEPT ![p].readable = ~@]
    /\ Edited("chmod")
    /\ check' = NoCheck
    /\ EnvFrame

\* a file that does not end in .txt appears or goes
EnvOtherFile ==
    /\ hist.edits < MaxEdits
    /\ IF OtherFile \in DOMAIN fs
       THEN fs' = [q \in DOMAIN fs \ {OtherFile} |-> fs[q]]
       ELSE fs' = [q \in DOMAIN fs \cup {OtherFile} |->
                      IF q = OtherFile
                      THEN [content |-> <<>>, mtime |-> 0, readable |-> TRUE]
                      ELSE fs[q]]
    /\ Edited("other")
    /\ check' = NoCheck
    /\ EnvFrame

(***************************************************************************)
(* The offline indexing flow: run_offline_indexing, main.py:19-52.         *)
(***************************************************************************)
Idle == pc \in {"idle", "done", "failed"}

\* offline_flow.run(shared) with a fresh shared store
StartRun ==
    /\ Idle
    /\ pc' = "ingest_prep"
    /\ shared' = EmptyShared
    /\ loc' = NoLocals
    /\ check' = NoCheck
    /\ hist' = [hist EXCEPT !.addCalls = 0, !.batches = <<>>]
    /\ UNCHANGED <<fs, cacheFile, collection, qvars, fvars>>

\* DocumentIngestionNode.prep
IngestPrep ==
    /\ pc = "ingest_prep"
    /\ loc' = [loc EXCEPT !.file_paths = IngestionPrep(fs)]
    /\ pc' = "ingest_exec"
    /\ UNCHANGED <<fs, cacheFile, collection, shared, check, hist, qvars, fvars>>

\* DocumentIngestionNode.exec of the next file
IngestExec ==
    /\ pc = "ingest_exec"
    /\ Len(loc.exec_res) < Len(loc.file_paths)
    /\ loc' = [loc EXCEPT !.exec_res =
           Append(@, ProcessFile(fs, loc.file_paths[Len(@) + 1]))]
    /\ UNCHANGED <<fs, cacheFile, collection, pc, shared, check, hist, qvars, fvars>>

\* DocumentIngestionNode.post
IngestPost ==
    /\ pc = "ingest_exec"
    /\ Len(loc.exec_res) = Len(loc.file_paths)
    /\ shared' = [shared EXCEPT !.processed_files = loc.exec_res]
    /\ loc' = NoLocals
    /\ pc' = "index_prep"
    /\ UNCHANGED <<fs, cacheFile, collection, check, hist, qvars, fvars>>

\* VectorIndexCreationNode.prep
IndexPrep ==
    /\ pc = "index_prep"
    /\ IF UseCachedIndex(collection, cacheFile, fs)
       THEN /\ shared' = [shared EXCEPT
                             !.indexing_skipped = TRUE,
                             !.total_chunks_indexed = Cardinality(collection.ids)]
            /\ loc' = [loc EXCEPT !.documents_to_chunk = <<>>]
       ELSE /\ shared' = [shared EXCEPT !.indexing_skipped = FALSE]
            /\ loc' = [loc EXCEPT !.documents_to_chunk =
                                      DocumentsToChunk(shared.processed_files)]
    /\ pc' = "index_exec"
    /\ UNCHANGED <<fs, cacheFile, collection, check, hist, qvars, fvars>>

\* VectorIndexCreationNode.exec over prep's documents, then post up to the
\* batch loop: the early return when indexing was skipped, else all_chunks
\* and create_or_get_collection
IndexPostBegin ==
    /\ pc = "index_exec"
    /\ IF shared.indexing_skipped
       THEN /\ pc' = "done"
            /\ loc' = NoLocals
            /\ UNCHANGED collection
       ELSE /\ loc' = [loc EXCEPT !.all_chunks = AllChunks(loc.documents_to_chunk),
                                  !.documents_to_chunk = <<>>]
            /\ collection' = CreateOrGetCollection(collection)
            /\ pc' = "index_batches"
    /\ UNCHANGED <<fs, cacheFile, shared, check, hist, qvars, fvars>>

\* the batch loop with update_cache moved into it: the manifest is written
\* after each batch instead of after the loop
IndexBatchOkCacheEarly ==
    /\ pc = "index_batches"
    /\ loc.batch < Len(loc.all_chunks)
    /\ LET chunks == BatchOf(loc.all_chunks, loc.batch)
           ids    == [i \in 1..Len(chunks) |-> ChunkId(chunks[i])]
       IN  /\ collection' = AddDocuments(collection, ids)
           /\ loc' = [loc EXCEPT !.batch = @ + BATCH_SIZE]
           /\ hist' = [hist EXCEPT !.addCalls = @ + 1, !.batches = Append(@, ids)]
    /\ cacheFile' = UpdateCache(cacheFile, fs, TRUE, "ok")
    /\ UNCHANGED <<fs, pc, shared, check, qvars, fvars>>

\* post, one turn of the batch loop: add_documents returns
IndexBatchOk ==
    /\ pc = "index_batches"
    /\ loc.batch < Len(loc.all_chunks)
    /\ LET chunks == BatchOf(loc.all_chunks, loc.batch)
           ids    == [i \in 1..Len(chunks) |-> ChunkId(chunks[i])]
       IN  /\ collection' = AddDocuments(collection, ids)
           /\ loc' = [loc EXCEPT !.batch = @ + BATCH_SIZE]
           /\ hist' = [hist EXCEPT !.addCalls = @ + 1, !.batches = Append(@, ids)]
    /\ UNCHANGED <<fs, cacheFile, pc, shared, check, qvars, fvars>>

\* post, one turn of the batch loop: add_documents raises (embedding or
\* backing store error); the exception leaves post and ends the flow
IndexBatchRaises ==
    /\ pc = "index_batches"
    /\ loc.batch < Len(loc.all_chunks)
    /\ pc' = "failed"
    /\ loc' = NoLocals
    /\ hist' = [hist EXCEPT !.addCalls = @ + 1]
    /\ UNCHANGED <<fs, cacheFile, collection, shared, check, qvars, fvars>>

\* update_cache(use_hash=True) as post calls it, with the outcome of the write
PostUpdateCache(outcome) ==
    /\ cacheFile' = UpdateCache(cacheFile, fs, TRUE, outcome)
    /\ hist' = [hist EXCEPT
                   !.sinceUpdate = IF outcome = "ok" THEN 0
                                   ELSE IF outcome = "partial" THEN -1 ELSE @,
                   !.lastEdit = IF outcome = "not_open" THEN @ ELSE "none"]

\* post after the loop: total_chunks_indexed and update_cache
IndexPostFinish ==
    /\ pc = "index_batches"
    /\ loc.batch >= Len(loc.all_chunks)
    /\ shared' = [shared EXCEPT !.total_chunks_indexed = Len(loc.all_chunks)]
    /\ \E outcome \in SaveOutcomes : PostUpdateCache(outcome)
    /\ loc' = NoLocals
    /\ pc' = "done"
    /\ UNCHANGED <<fs, collection, check, qvars, fvars>>

\* has_changes(directory) called outside a run (tests/test_cache.py:32)
CheckChanges ==
    /\ Idle
    /\ LET r == HasChanges(cacheFile, fs, TRUE, FALSE)
           c == [changed |-> r[1], reason |-> r[2]]
       IN  check' = IF Len(check) < 2 THEN Append(check, c) ELSE <<check[2], c>>
    /\ UNCHANGED <<fs, cacheFile, collection, pc, shared, loc, hist, qvars, fvars>>

Next ==
    \/ EnvAddFile
    \/ EnvRemoveFile
    \/ EnvAlterByte
    \/ EnvResizeFile
    \/ EnvTouchFile
    \/ EnvChmodFile
    \/ EnvOtherFile
    \/ StartRun
    \/ IngestPrep
    \/ IngestExec
    \/ IngestPost
    \/ IndexPrep
    \/ IndexPostBegin
    \/ IndexBatchOk
    \/ IndexBatchRaises
    \/ IndexPostFinish
    \/ CheckChanges

Spec == Init /\ [][Next]_vars

(***************************************************************************)
(* The online research flow, main.py run_online_research.  The nodes run   *)
(* one after the other; a node that raises ends the flow.                  *)
(***************************************************************************)
(***************************************************************************)
(* The offline flow over a directory tree: the documents directory holds a *)
(* subdirectory, and nothing changes the files during the runs.            *)
(***************************************************************************)
\* the .txt paths that os.walk can find, in the directory and below it
TreePaths == 1..(2 * MaxFiles)

\* the directory trees, every file readable
Trees ==
    UNION {[S -> [content : Contents, mtime : {0}, readable : {TRUE}]] :
              S \in SUBSET TreePaths}

TreeInit ==
    /\ fs \in Trees
    /\ cacheFile = [kind |-> "absent", text |-> <<>>]
    /\ collection = [exists |-> FALSE, ids |-> {}]
    /\ pc = "idle"
    /\ shared = EmptyShared
    /\ loc = NoLocals
    /\ check = NoCheck
    /\ hist = [edits |-> 0, sinceUpdate |-> -1, lastEdit |-> "none", addCalls |-> 0,
               batches |-> <<>>]
    /\ QueryOff
    /\ NoCall

TreeNext ==
    \/ StartRun
    \/ IngestPrep
    \/ IngestExec
    \/ IngestPost
    \/ IndexPrep
    \/ IndexPostBegin
    \/ IndexBatchOk
    \/ IndexBatchRaises
    \/ IndexPostFinish

TreeSpec == TreeInit /\ [][TreeNext]_vars

QFrame == UNCHANGED <<ovars, fvars>>

\* the calls in flight of the stage that is running
InFlightJudge == IF qpc = "prune_exec" THEN Cardinality(InFlight(qtasks)) ELSE 0
InFlightExtract == IF qpc = "read_exec" THEN Cardinality(InFlight(qtasks)) ELSE 0

\* task i ends: its place in the order of ending
Ended(h, i) ==
    [h EXCEPT !.completion = Append(@, i),
              !.outOfOrder = @ \/ \E j \in InFlight(qtasks) : j < i]

\* QueryClassificationNode with the classifier asked whatever the query is
QueryClassificationOfAnyQuery ==
    /\ qpc = "classify"
    /\ \E outcome \in ClassifierOutcomes :
         IF ConfidenceFormats(outcome)
         THEN /\ qshared' = [qshared EXCEPT !.query_classification = ClassifyLegalQueryType(outcome)]
              /\ qhist' = [qhist EXCEPT !.classifierCalls = @ + 1]
              /\ qpc' = "retrieve"
         ELSE /\ qshared' = qshared
              /\ qhist' = [qhist EXCEPT !.classifierCalls = @ + 1,
                                        !.failedIn = "classification"]
              /\ qpc' = "failed"
    /\ UNCHANGED qtasks
    /\ UNCHANGED progress
    /\ QFrame

\* QueryClassificationNode: prep, exec, post
QueryClassification ==
    /\ qpc = "classify"
    /\ IF qshared.user_query = <<>>
       THEN /\ qshared' = [qshared EXCEPT !.query_classification = ClassificationFallback]
            /\ qhist' = qhist
            /\ qpc' = "retrieve"
       ELSE \E outcome \in ClassifierOutcomes :
            IF ConfidenceFormats(outcome)
            THEN /\ qshared' = [qshared EXCEPT !.query_classification = ClassifyLegalQueryType(outcome)]
                 /\ qhist' = [qhist EXCEPT !.classifierCalls = @ + 1]
                 /\ qpc' = "retrieve"
            ELSE /\ qshared' = qshared
                 /\ qhist' = [qhist EXCEPT !.classifierCalls = @ + 1,
                                           !.failedIn = "classification"]
                 /\ qpc' = "failed"
    /\ UNCHANGED qtasks
    /\ UNCHANGED progress
    /\ QFrame

\* InitialRetrievalNode.prep raises ValueError
InitialRetrievalNoQuery ==
    /\ qpc = "retrieve"
    /\ qshared.user_query = <<>>
    /\ qpc' = "failed"
    /\ qhist' = [qhist EXCEPT !.failedIn = "retrieval"]
    /\ UNCHANGED <<qshared, qtasks>>
    /\ UNCHANGED progress
    /\ QFrame

\* InitialRetrievalNode: prep, exec, post; the search returns its hits
InitialRetrieval ==
    /\ qpc = "retrieve"
    /\ qshared.user_query # <<>>
    /\ \E hits \in HitLists :
        qshared' = [qshared EXCEPT !.retrieved_chunks = hits]
    /\ qhist' = [qhist EXCEPT !.searchCalls = @ + 1]
    /\ qpc' = "extract"
    /\ UNCHANGED qtasks
    /\ UNCHANGED progress
    /\ QFrame

\* InitialRetrievalNode.post: collection.query raises
InitialRetrievalRaises ==
    /\ qpc = "retrieve"
    /\ qshared.user_query # <<>>
    /\ qhist' = [qhist EXCEPT !.searchCalls = @ + 1, !.failedIn = "retrieval"]
    /\ qpc' = "failed"
    /\ UNCHANGED <<qshared, qtasks>>
    /\ UNCHANGED progress
    /\ QFrame

\* DocumentExtractionNode: prep, exec, post
DocumentExtraction ==
    /\ qpc = "extract"
    /\ \E unique_documents \in Listings(UniqueDocs(qshared.retrieved_chunks)) :
        qshared' = [qshared EXCEPT !.unique_documents = unique_documents]
    /\ qpc' = "prune_prep"
    /\ UNCHANGED <<qtasks, qhist>>
    /\ UNCHANGED progress
    /\ QFrame

\* PruningAgentNode.prep_async, and gather over its items
PruningPrepAsync ==
    /\ qpc = "prune_prep"
    /\ LET items == PruningPrep(qshared.user_query, qshared.unique_documents,
                                qshared.retrieved_chunks)
       IN  /\ qtasks' = NewTasks(items)
           /\ qhist' = [qhist EXCEPT
                  !.judgeOutcome = [i \in 1..Len(items) |-> <<"not asked">>],
                  !.completion = <<>>]
    /\ qpc' = "prune_exec"
    /\ UNCHANGED qshared
    /\ UNCHANGED progress
    /\ QFrame

\* PruningAgentNode.exec_async of the next item, up to its await of the judge
\* call, or to its return when it makes none
PruningExecStart ==
    /\ qpc = "prune_exec"
    /\ \E i \in 1..Len(qtasks.items) :
        /\ qtasks.status[i] = "pending"
        /\ \A j \in 1..(i - 1) : qtasks.status[j] # "pending"
        /\ IF JudgeIsAsked(qtasks.items[i])
           THEN /\ qtasks' = [qtasks EXCEPT !.status[i] = "inflight"]
                /\ qhist' = [qhist EXCEPT !.pruneStarted = @ + 1,
                                          !.judged = @ \cup {qtasks.items[i].doc}]
           ELSE /\ qtasks' = [qtasks EXCEPT
                       !.status[i] = "done",
                       !.results = GatherStore(@, i, PruningWithoutJudge(qtasks.items[i]))]
                /\ qhist' = [Ended(qhist, i) EXCEPT !.pruneStarted = @ + 1,
                                                    !.pruneReturned = @ + 1]
    /\ UNCHANGED <<qpc, qshared>>
    /\ UNCHANGED progress
    /\ QFrame

\* PruningAgentNode.exec_async of an item, from the end of its judge call
PruningExecReturn ==
    /\ qpc = "prune_exec"
    /\ \E i \in InFlight(qtasks), outcome \in JudgeOutcomes :
        /\ qtasks' = [qtasks EXCEPT
               !.status[i] = "done",
               !.results = GatherStore(@, i, PruningWithJudge(qtasks.items[i], outcome))]
        /\ qhist' = [Ended(qhist, i) EXCEPT
               !.pruneReturned = @ + 1,
               !.judgeOutcome[i] = outcome,
               !.judgeRaised = IF outcome = Raises
                               THEN @ \cup {qtasks.items[i].doc} ELSE @]
    /\ UNCHANGED <<qpc, qshared>>
    /\ UNCHANGED progress
    /\ QFrame

\* post_async run as soon as every task has started, with the results so far
PruningPostAsyncEarly ==
    /\ qpc = "prune_exec"
    /\ \A i \in 1..Len(qtasks.status) : qtasks.status[i] # "pending"
    /\ LET sofar == SelectSeq(qtasks.results, LAMBDA r : r.doc # NoName)
       IN  qshared' = [qshared EXCEPT
               !.pruning_results = PruningResults(sofar),
               !.relevant_documents = RelevantDocuments(sofar)]
    /\ qtasks' = NoTasks
    /\ qpc' = "read_prep"
    /\ UNCHANGED qhist
    /\ UNCHANGED progress
    /\ QFrame

\* PruningAgentNode.post_async, once gather has every result
PruningPostAsync ==
    /\ qpc = "prune_exec"
    /\ GatherJoined(qtasks)
    /\ qshared' = [qshared EXCEPT
           !.pruning_results = PruningResults(qtasks.results),
           !.relevant_documents = RelevantDocuments(qtasks.results)]
    /\ qtasks' = NoTasks
    /\ qpc' = "read_prep"
    /\ UNCHANGED qhist
    /\ UNCHANGED progress
    /\ QFrame

\* ReadingAgentNode.prep_async, and gather over its items
ReadingPrepAsync ==
    /\ qpc = "read_prep"
    /\ LET items == ReadingPrep(qshared.user_query, qshared.relevant_documents,
                                qshared.query_classification)
       IN  /\ qtasks' = NewTasks(items)
           /\ qhist' = [qhist EXCEPT
                  !.readOutcome = [i \in 1..Len(items) |->
                                      [file |-> "not looked", call |-> "not made"]],
                  !.completion = <<>>]
           /\ progress' = IF items = <<>> THEN progress
                          ELSE UpdateReadingStart(progress, qshared.relevant_documents)
    /\ qpc' = "read_exec"
    /\ UNCHANGED qshared
    /\ QFrame

\* exec_async without the os.path.exists test: the extraction call is made
\* for a file that is not there, over the empty content
ReadingExecStartNoExistsTest ==
    /\ qpc = "read_exec"
    /\ \E i \in 1..Len(qtasks.items), file_state \in FileStates :
        /\ qtasks.status[i] = "pending"
        /\ \A j \in 1..(i - 1) : qtasks.status[j] # "pending"
        /\ qtasks' = [qtasks EXCEPT !.status[i] = "inflight",
                                    !.held[i] = file_state]
        /\ qhist' = [qhist EXCEPT !.readStarted = @ + 1,
                                  !.extractCalls = @ + 1,
                                  !.readOutcome[i].file = file_state]
        /\ progress' = UpdateDocumentStatus(progress, qtasks.items[i].doc, "reading")
    /\ UNCHANGED <<qpc, qshared>>
    /\ QFrame

\* ReadingAgentNode.exec_async of the next item, up to its await of the
\* extraction call, or to its return when the file does not exist
ReadingExecStart ==
    /\ qpc = "read_exec"
    /\ \E i \in 1..Len(qtasks.items), file_state \in FileStates :
        /\ qtasks.status[i] = "pending"
        /\ \A j \in 1..(i - 1) : qtasks.status[j] # "pending"
        /\ IF file_state = "missing"
           THEN /\ qtasks' = [qtasks EXCEPT
                       !.status[i] = "done",
                       !.results = GatherStore(@, i, ReadingWithoutFile(qtasks.items[i]))]
                /\ qhist' = [Ended(qhist, i) EXCEPT
                       !.readStarted = @ + 1,
                       !.readReturned = @ + 1,
                       !.readOutcome[i].file = file_state]
                /\ progress' = UpdateDocumentStatus(
                                   UpdateDocumentStatus(progress, qtasks.items[i].doc, "reading"),
                                   qtasks.items[i].doc, "error")
           ELSE /\ qtasks' = [qtasks EXCEPT !.status[i] = "inflight",
                                            !.held[i] = file_state]
                /\ qhist' = [qhist EXCEPT !.readStarted = @ + 1,
                                          !.extractCalls = @ + 1,
                                          !.readOutcome[i].file = file_state]
                /\ progress' = UpdateDocumentStatus(progress, qtasks.items[i].doc, "reading")
    /\ UNCHANGED <<qpc, qshared>>
    /\ QFrame

\* ReadingAgentNode.exec_async of an item, from the end of its extraction call
ReadingExecReturn ==
    /\ qpc = "read_exec"
    /\ \E i \in InFlight(qtasks), outcome \in ExtractOutcomes :
        /\ qtasks' = [qtasks EXCEPT
               !.status[i] = "done",
               !.results = GatherStore(@, i,
                              ReadingWithCall(qtasks.items[i], qtasks.held[i], outcome))]
        /\ qhist' = [Ended(qhist, i) EXCEPT !.readReturned = @ + 1,
                                            !.readOutcome[i].call = outcome]
        /\ progress' = UpdateDocumentStatus(progress, qtasks.items[i].doc,
                           IF outcome = "raises" THEN "error" ELSE "completed")
    /\ UNCHANGED <<qpc, qshared>>
    /\ QFrame

\* ReadingAgentNode.post_async, once gather has every result
ReadingPostAsync ==
    /\ qpc = "read_exec"
    /\ GatherJoined(qtasks)
    /\ qshared' = [qshared EXCEPT
           !.document_summaries = DocumentSummaries(qtasks.results),
           !.document_metadata = DocumentMetadata(qtasks.results)]
    /\ qtasks' = NoTasks
    /\ qpc' = "aggregate"
    /\ UNCHANGED qhist
    /\ UNCHANGED progress
    /\ QFrame

\* exec without its try/except: the exception of the synthesis call leaves
\* the node and ends the flow
AggregationUncaught ==
    /\ qpc = "aggregate"
    /\ IF SynthesisIsCalled(qshared.document_summaries)
       THEN \E outcome \in SynthesisOutcomes :
            IF outcome = "raises"
            THEN /\ qpc' = "failed"
                 /\ qhist' = [qhist EXCEPT !.synthCalls = @ + 1,
                                           !.synthRaised = TRUE,
                                           !.failedIn = "aggregation"]
                 /\ UNCHANGED qshared
            ELSE /\ qpc' = "done"
                 /\ qshared' = [qshared EXCEPT !.final_response =
                                    AggregationWithCall(qshared.document_summaries, outcome)]
                 /\ qhist' = [qhist EXCEPT !.synthCalls = @ + 1]
       ELSE /\ qpc' = "done"
            /\ qshared' = [qshared EXCEPT !.final_response = NoCasesMessage]
            /\ qhist' = qhist
    /\ UNCHANGED qtasks
    /\ UNCHANGED progress
    /\ QFrame

\* AggregationAgentNode: prep, exec, post
Aggregation ==
    /\ qpc = "aggregate"
    /\ IF SynthesisIsCalled(qshared.document_summaries)
       THEN \E outcome \in SynthesisOutcomes :
            /\ qshared' = [qshared EXCEPT !.final_response =
                               AggregationWithCall(qshared.document_summaries, outcome)]
            /\ qhist' = [qhist EXCEPT !.synthCalls = @ + 1,
                                      !.synthRaised = (outcome = "raises")]
       ELSE /\ qshared' = [qshared EXCEPT !.final_response = NoCasesMessage]
            /\ qhist' = qhist
    /\ qpc' = "done"
    /\ UNCHANGED qtasks
    /\ UNCHANGED progress
    /\ QFrame

\* run_online_research(user_query): the shared store of main.py:91-102, with
\* the documents directory and the index as the offline flow left them
QueryInit ==
    /\ OfflineInit
    /\ NoCall
    /\ qpc = "classify"
    /\ qshared \in {QueryShared(q) : q \in Queries}
    /\ qtasks = NoTasks
    /\ qhist = NoQueryHistory
    /\ progress = NoProgress

QueryNext ==
    \/ QueryClassification
    \/ InitialRetrievalNoQuery
    \/ InitialRetrieval
    \/ InitialRetrievalRaises
    \/ DocumentExtraction
    \/ PruningPrepAsync
    \/ PruningExecStart
    \/ PruningExecReturn
    \/ PruningPostAsync
    \/ ReadingPrepAsync
    \/ ReadingExecStart
    \/ ReadingExecReturn
    \/ ReadingPostAsync
    \/ Aggregation

QuerySpec == QueryInit /\ [][QueryNext]_vars

(***************************************************************************)
(* Properties of the cache and of the offline flow.                        *)
(***************************************************************************)
\* C1: after update_cache has recorded the corpus, a single change (a .txt
\* file added, a .txt file removed, or one byte of a file altered with the
\* size kept) makes every following full has_changes return True.
C1_SingleChangeDetected ==
    (hist.sinceUpdate = 1 /\ hist.lastEdit \in {"add", "remove", "alter"})
        => \A i \in 1..Len(check) : check[i].changed

\* C2: once update_cache has saved the manifest and the directory has not
\* changed since, two has_changes calls in a row both return False.
C2_TwiceNoChange ==
    (hist.sinceUpdate = 0 /\ Len(check) = 2)
        => (~check[1].changed /\ ~check[2].changed)

\* C3: the run skips indexing exactly when the collection holds at least one
\* record and has_changes reports no change; a skipped run makes no
\* add_documents call and leaves the manifest file alone; a run that is not
\* skipped and completes has inserted the chunks of every document that was
\* ingested without error.
C3_SkipOrReindex ==
    [][ /\ (pc = "index_prep" /\ pc' # pc) =>
              (shared'.indexing_skipped <=>
                  (/\ collection.exists
                   /\ Cardinality(collection.ids) >= 1
                   /\ ~HasChanges(cacheFile, fs, TRUE, FALSE)[1]))
        /\ (shared.indexing_skipped /\ shared'.indexing_skipped) =>
              (/\ cacheFile' = cacheFile
               /\ collection' = collection
               /\ hist'.addCalls = 0)
        /\ (pc # "done" /\ pc' = "done" /\ ~shared'.indexing_skipped) =>
              (\A k \in 1..Len(shared.processed_files) :
                  LET f == shared.processed_files[k]
                  IN  ~f.error =>
                         \A i \in 1..Len(f.content) :
                            <<f.file_name, "_", i - 1>> \in collection'.ids)
      ]_vars

\* C3, its case: a run that found records and no change has ended
C3_Witness ==
    /\ pc = "done"
    /\ shared.indexing_skipped
    /\ shared.total_chunks_indexed >= 1
    /\ hist.addCalls = 0

\* C4: the manifest file is written only by the step that follows the batch
\* loop, when every add_documents call of the build has returned; the step
\* in which add_documents raises, and every step before it, leaves the file
\* as it was.
C4_CacheAfterAllBatches ==
    [][ /\ (cacheFile' # cacheFile) =>
              (/\ pc = "index_batches" /\ pc' = "done"
               /\ loc.batch >= Len(loc.all_chunks)
               /\ hist.addCalls * BATCH_SIZE >= Len(loc.all_chunks)
               /\ \A i \in 1..Len(loc.all_chunks) :
                     ChunkId(loc.all_chunks[i]) \in collection.ids)
        /\ (pc' = "failed") => (cacheFile' = cacheFile)
      ]_vars

\* C4, its case: a build whose second add_documents call raised
C4_Witness ==
    /\ pc = "failed"
    /\ hist.addCalls = 2

(***************************************************************************)
(* Properties of the online research flow.                                 *)
(***************************************************************************)
\* the positions after PruningAgentNode.post_async and after
\* ReadingAgentNode.post_async
AfterPruning == {"read_prep", "read_exec", "aggregate", "done"}
AfterReading == {"aggregate", "done"}

\* every hit of the document has an empty text (or it has no hit at all)
NoChunkText(doc) ==
    \A i \in 1..Len(qshared.retrieved_chunks) :
        qshared.retrieved_chunks[i].file_name = doc
            => qshared.retrieved_chunks[i].text = <<>>

\* the verdict pruning_results holds for doc, as a set (empty: none)
VerdictsOf(doc) ==
    {qshared.pruning_results[i][2] :
        i \in {j \in 1..Len(qshared.pruning_results) : qshared.pruning_results[j][1] = doc}}

\* C5: a candidate document that has no retrieved chunk, or whose retrieved
\* chunks all have an empty text, gets the verdict relevant = False, is not
\* in relevant_documents, and no judge call is made for it.
C5_FailClosedPruning ==
    \A doc \in DocNames :
        NoChunkText(doc) =>
            /\ doc \notin qhist.judged
            /\ doc \notin Range(qshared.relevant_documents)
            /\ \A v \in VerdictsOf(doc) : ~v.relevant
            /\ \A i \in 1..Len(qtasks.items) :
                   (qpc = "prune_exec" /\ qtasks.items[i].doc = doc)
                       => qtasks.status[i] # "inflight"
            /\ (qpc \in AfterPruning /\ doc \in Range(qshared.unique_documents))
                   => VerdictsOf(doc) # {}

\* C5, its case: a run has ended in which one candidate had only hits with an
\* empty text and another was judged relevant
C5_Witness ==
    /\ qpc = "done"
    /\ \E doc \in Range(qshared.unique_documents) :
           /\ NoChunkText(doc)
           /\ VerdictsOf(doc) = {[relevant |-> FALSE, explanation |-> <<"No chunk text">>]}
    /\ qshared.relevant_documents # <<>>

\* C6: when the judge call of a document raises, the document's verdict is
\* relevant = False with the error as its rationale, every other document
\* has the verdict its own judge call gave it, and the pruning stage ends
\* without raising.
C6_JudgeErrorContained ==
    /\ qhist.failedIn \in {"none", "classification", "retrieval"}
    /\ qpc \in AfterPruning =>
        /\ Len(qshared.pruning_results) = Len(qshared.unique_documents)
        /\ \A i \in 1..Len(qshared.unique_documents) :
            LET doc     == qshared.unique_documents[i]
                outcome == qhist.judgeOutcome[i]
            IN  /\ qshared.pruning_results[i][1] = doc
                /\ (doc \in qhist.judgeRaised <=> outcome = <<"raises">>)
                /\ outcome = <<"raises">> =>
                       /\ qshared.pruning_results[i][2] =
                              [relevant |-> FALSE, explanation |-> <<"Error">>]
                       /\ doc \notin Range(qshared.relevant_documents)
                /\ outcome = <<"N", "O">> =>
                       /\ qshared.pruning_results[i][2] =
                              [relevant |-> FALSE, explanation |-> <<"N", "O">>]
                       /\ doc \notin Range(qshared.relevant_documents)
                /\ outcome = <<" ", "y", "e", "s", " ">> =>
                       /\ qshared.pruning_results[i][2] =
                              [relevant |-> TRUE, explanation |-> <<"y", "e", "s">>]
                       /\ doc \in Range(qshared.relevant_documents)

\* C6, its case: the judge call of one document raised, that of another
\* answered yes, and the run went on to its end
C6_Witness ==
    /\ qpc = "done"
    /\ qhist.judgeRaised # {}
    /\ qshared.relevant_documents # <<>>
    /\ Len(qshared.pruning_results) = 2

\* C7: the judge calls in flight never exceed MAX_PARALLEL_PRUNING and the
\* extraction calls in flight never exceed MAX_PARALLEL_READING.
C7_BoundedParallelism ==
    /\ InFlightJudge <= MAX_PARALLEL_PRUNING
    /\ InFlightExtract <= MAX_PARALLEL_READING

\* C8: no extraction task starts before every pruning task has returned its
\* verdict, and the synthesis call is not issued before every extraction
\* task has returned.
C8_StageBarriers ==
    /\ qhist.readStarted > 0 =>
           /\ qhist.pruneStarted = Len(qshared.unique_documents)
           /\ qhist.pruneReturned = qhist.pruneStarted
    /\ qhist.synthCalls > 0 =>
           /\ qhist.pruneReturned = qhist.pruneStarted
           /\ qhist.readStarted = Len(qshared.relevant_documents)
           /\ qhist.readReturned = qhist.readStarted
    /\ qpc \in {"classify", "retrieve", "extract", "prune_prep", "prune_exec"} =>
           qhist.readStarted = 0 /\ qhist.extractCalls = 0
    /\ qpc # "done" => qhist.synthCalls = 0

\* C8, its case: the synthesis call was made after two pruning tasks and two
\* extraction tasks
C8_Witness ==
    /\ qhist.synthCalls = 1
    /\ qhist.pruneReturned = 2
    /\ qhist.readReturned = 2

\* what pruning task i returns, from its item and the outcome of its call
PruningResultOf(i) ==
    LET item == PruningPrep(qshared.user_query, qshared.unique_documents,
                            qshared.retrieved_chunks)[i]
    IN  IF qhist.judgeOutcome[i] = <<"not asked">>
        THEN PruningWithoutJudge(item)
        ELSE PruningWithJudge(item, qhist.judgeOutcome[i])

\* what reading task i returns, from its item and what it found and got
ReadingResultOf(i) ==
    LET item == ReadingPrep(qshared.user_query, qshared.relevant_documents,
                            qshared.query_classification)[i]
    IN  IF qhist.readOutcome[i].file = "missing"
        THEN ReadingWithoutFile(item)
        ELSE ReadingWithCall(item, qhist.readOutcome[i].file, qhist.readOutcome[i].call)

\* C9: the verdict map, the relevant-document list, the summary map, the
\* metadata map and what aggregation is handed are determined by the
\* retrieved chunks and by each document's own judge and extraction
\* outcomes: they are the same whatever order the tasks ended in.
C9_CompletionOrderIndependent ==
    /\ qpc \in AfterPruning =>
        LET prunings == [i \in 1..Len(qshared.unique_documents) |-> PruningResultOf(i)]
        IN  /\ qshared.pruning_results = PruningResults(prunings)
            /\ qshared.relevant_documents = RelevantDocuments(prunings)
    /\ qpc \in AfterReading =>
        LET readings == [i \in 1..Len(qshared.relevant_documents) |-> ReadingResultOf(i)]
        IN  /\ qshared.document_summaries = DocumentSummaries(readings)
            /\ qshared.document_metadata = DocumentMetadata(readings)
    /\ (qpc = "done" /\ qshared.final_response.kind = "synthesis") =>
           qshared.final_response.cases = qshared.relevant_documents

\* C9, its case: a run with two documents judged and read has ended, and the
\* tasks of a stage ended in another order than they started
C9_Witness ==
    /\ qpc = "done"
    /\ qhist.outOfOrder
    /\ Len(qshared.pruning_results) = 2
    /\ Len(qshared.document_summaries) = 2
    /\ qhist.completion = <<2, 1>>

\* C10: when the summary map that reaches aggregation is empty, the final
\* response is the fixed message that no relevant legal cases were found, and
\* the run made no extraction call and no synthesis call; a search without
\* hits and a pruning that keeps no document both end so.
C10_EmptySummariesShortCircuit ==
    /\ (qpc = "done" /\ qshared.document_summaries = <<>>) =>
           /\ qshared.final_response = [kind |-> "no relevant legal cases", cases |-> <<>>]
           /\ qhist.extractCalls = 0
           /\ qhist.synthCalls = 0
    /\ (qpc = "done" /\ (qshared.retrieved_chunks = <<>> \/ qshared.relevant_documents = <<>>)) =>
           qshared.document_summaries = <<>>

\* C10, its case: the judge was asked and pruning kept no document
C10_Witness ==
    /\ qpc = "done"
    /\ qhist.judged # {}
    /\ qshared.relevant_documents = <<>>
    /\ qshared.final_response.kind = "no relevant legal cases"

C12_SynthesisErrorContained ==
    /\ qhist.failedIn # "aggregation"
    /\ qhist.synthRaised =>
        /\ qpc = "done"
        /\ qhist.synthCalls = 1
        /\ qshared.final_response = [kind |-> "error synthesizing", cases |-> <<>>]
    /\ (qpc = "done" /\ qshared.final_response.kind = "error synthesizing") =>
           qhist.synthRaised

\* C12, its case: the synthesis call over a non-empty summary map raised
C12_Witness ==
    /\ qhist.synthRaised
    /\ qshared.document_summaries # <<>>
    /\ qshared.final_response.kind = "error synthesizing"

\* the entries the quick-access list of the final response has for doc
FooterEntries(doc) ==
    {i \in 1..Len(qshared.final_response.cases) : qshared.final_response.cases[i] = doc}

\* C13: after a successful synthesis the quick-access list appended to the
\* answer has exactly one entry for each document that pruning kept and none
\* for a document judged not relevant (or not retrieved at all).
C13_FooterListsSurvivors ==
    (qpc = "done" /\ qshared.final_response.kind = "synthesis") =>
        /\ Len(qshared.final_response.cases) = Len(qshared.relevant_documents)
        /\ \A doc \in DocNames :
            IF \E v \in VerdictsOf(doc) : v.relevant
            THEN Cardinality(FooterEntries(doc)) = 1
            ELSE FooterEntries(doc) = {}

\* C13, its case: of two candidates one was judged not relevant; the file of
\* the other was kept, and the synthesis answered
C13_Witness ==
    /\ qpc = "done"
    /\ qshared.final_response.kind = "synthesis"
    /\ Len(qshared.pruning_results) = 2
    /\ Len(qshared.final_response.cases) = 1
    /\ \E doc \in DocNames : VerdictsOf(doc) = {[relevant |-> FALSE, explanation |-> <<"N", "O">>]}

(***************************************************************************)
(* VectorDatabase.search, applied on its own.  Distances, scores and       *)
(* thresholds are counted in halves.                                       *)
(***************************************************************************)
\* the 1.0 of similarity_score = 1.0 - distance
One == 2

Distances == 0..MaxDistance
Thresholds == 0..One

\* a collection as the query sees it: record id -> its distance to the query
StoredRecords == UNION {[1..n -> Distances] : n \in 0..MaxStored}

\* collection.query(query_texts, n_results): the n_results nearest records,
\* nearest first
RECURSIVE Nearest(_, _, _)
Nearest(stored, ids, n) ==
    IF n = 0 \/ ids = {} THEN <<>>
    ELSE LET best == CHOOSE i \in ids :
                         \A j \in ids : \/ stored[i] < stored[j]
                                        \/ (stored[i] = stored[j] /\ i <= j)
         IN  <<[id |-> best, distance |-> stored[best]]>>
                 \o Nearest(stored, ids \ {best}, n - 1)

CollectionQuery(stored, n_results) == Nearest(stored, DOMAIN stored, n_results)

\* a filter that drops the hits whose score equals the threshold
SearchStrictlyAbove(stored, n_results, similarity_threshold) ==
    LET results == CollectionQuery(stored, n_results)
        kept    == SelectSeq(results,
                             LAMBDA r : One - r.distance > similarity_threshold)
    IN  [i \in 1..Len(kept) |-> [id |-> kept[i].id, score |-> One - kept[i].distance]]

\* search(query, n_results, similarity_threshold)
Search(stored, n_results, similarity_threshold) ==
    LET results == CollectionQuery(stored, n_results)
        kept    == SelectSeq(results,
                             LAMBDA r : One - r.distance >= similarity_threshold)
    IN  [i \in 1..Len(kept) |-> [id |-> kept[i].id, score |-> One - kept[i].distance]]

SearchInit ==
    /\ OfflineInit
    /\ QueryOff
    /\ call \in [fn : {"search"}, returned : {FALSE}, stored : StoredRecords,
                 n_results : 1..MaxStored, similarity_threshold : Thresholds]
    /\ result = <<>>

SearchCall ==
    /\ call.fn = "search"
    /\ ~call.returned
    /\ result' = Search(call.stored, call.n_results, call.similarity_threshold)
    /\ call' = [call EXCEPT !.returned = TRUE]
    /\ UNCHANGED <<ovars, qvars>>

SearchNext == SearchCall

SearchSpec == SearchInit /\ [][SearchNext]_vars

\* C14: search returns exactly those of the at most n_results nearest
\* neighbours whose score 1 - distance is at least similarity_threshold, in
\* their order; every hit returned has a score of at least the threshold;
\* and when no neighbour qualifies the result is the empty list.
C14_SimilarityFloor ==
    (call.fn = "search" /\ call.returned) =>
        LET nearest   == CollectionQuery(call.stored, call.n_results)
            qualifies == {k \in 1..Len(nearest) :
                             One - nearest[k].distance >= call.similarity_threshold}
        IN  /\ Len(nearest) <= call.n_results
            /\ \A i \in 1..Len(result) : result[i].score >= call.similarity_threshold
            /\ Len(result) = Cardinality(qualifies)
            /\ \A k \in qualifies :
                   \E i \in 1..Len(result) :
                       /\ result[i] = [id |-> nearest[k].id,
                                       score |-> One - nearest[k].distance]
                       /\ i = Cardinality({m \in qualifies : m <= k})
            /\ (qualifies = {}) => result = <<>>

\* C14, its case: a search over three records, one of them beyond the
\* n_results nearest, one below the threshold and one exactly at it
C14_Witness ==
    /\ call.fn = "search"
    /\ call.returned
    /\ Len(call.stored) = 3
    /\ call.n_results = 2
    /\ Len(result) = 1
    /\ result[1].score = call.similarity_threshold

(***************************************************************************)
(* LegalTextChunker (src/utils/chunking.py), applied on its own.  Texts    *)
(* are sequences of characters.                                            *)
(***************************************************************************)
\* \d of the regular expressions
IsDigit(c) == c \in {"1", "2"}

\* the first position from i on that holds no whitespace (Len + 1: none)
RECURSIVE SkipSpaces(_, _)
SkipSpaces(t, i) ==
    IF i <= Len(t) /\ IsSpace(t[i]) THEN SkipSpaces(t, i + 1) ELSE i

\* the first position from i on that holds no digit
RECURSIVE SkipDigits(_, _)
SkipDigits(t, i) ==
    IF i <= Len(t) /\ IsDigit(t[i]) THEN SkipDigits(t, i + 1) ELSE i

\* \[\d+\] at position i: the position after it, 0 when it does not match
MatchNumberAt(t, i) ==
    IF i <= Len(t) /\ t[i] = "["
    THEN LET k == SkipDigits(t, i + 1)
         IN  IF k > i + 1 /\ k <= Len(t) /\ t[k] = "]" THEN k + 1 ELSE 0
    ELSE 0

\* \n\s*\[\d+\] at position i: the position after it, 0 when it does not match
MatchParagraphStartAt(t, i) ==
    IF i <= Len(t) /\ t[i] = "\n"
    THEN MatchNumberAt(t, SkipSpaces(t, i + 1))
    ELSE 0

\* the pattern of _split_by_legal_paragraphs, \n\s*\[\d+\]\s*, at position i
MatchParagraphAt(t, i) ==
    LET k == MatchParagraphStartAt(t, i)
    IN  IF k = 0 THEN 0 ELSE SkipSpaces(t, k)

\* the matches of the pattern from position i on, leftmost first, as
\* [from, to) spans
RECURSIVE ParagraphMatches(_, _)
ParagraphMatches(t, i) ==
    IF i > Len(t) THEN <<>>
    ELSE LET k == MatchParagraphAt(t, i)
         IN  IF k = 0 THEN ParagraphMatches(t, i + 1)
             ELSE <<[from |-> i, to |-> k]>> \o ParagraphMatches(t, k)

\* _split_by_legal_paragraphs
SplitByLegalParagraphs(text) ==
    LET ms      == ParagraphMatches(text, 1)
        \* re.split(pattern, text)
        parts   == [i \in 1..(Len(ms) + 1) |->
                      SubSeq(text,
                             IF i = 1 THEN 1 ELSE ms[i - 1].to,
                             IF i > Len(ms) THEN Len(text) ELSE ms[i].from - 1)]
        \* re.findall(pattern, text)
        numbers == [i \in 1..Len(ms) |-> SubSeq(text, ms[i].from, ms[i].to - 1)]
        \* the text before the first number, stripped; a number and its
        \* content, each stripped, with a blank between them
        para_text == [i \in 1..Len(parts) |->
                        IF i = 1 THEN Strip(parts[1])
                        ELSE Strip(numbers[i - 1]) \o <<" ">> \o Strip(parts[i])]
    IN  SelectSeq(para_text, LAMBDA p : Strip(p) # <<>>)

\* the greater of two numbers
Max(a, b) == IF a >= b THEN a ELSE b

\* _split_by_sections: the texts of the model hold no heading (no capital
\* letter and no colon), so none of the three patterns matches
SplitBySections(text) == <<text>>

\* _character_based_chunking from the window start on (start counts the
\* characters before the window, as in the code); fuel bounds the iterations
RECURSIVE CharacterChunksFrom(_, _, _, _)
CharacterChunksFrom(chunker, text, start, fuel) ==
    IF start >= Len(text) \/ fuel = 0 THEN <<>>
    ELSE LET end == start + chunker.chunk_size
         IN  IF end >= Len(text)
             THEN <<SubSeq(text, start + 1, Len(text))>>
             ELSE LET lowest == Max(start + (chunker.chunk_size \div 2), end - 100)
                      spaces == {i \in (lowest + 1)..end : IsSpace(text[i + 1])}
                      chunk_end == IF spaces = {} THEN end
                                   ELSE CHOOSE i \in spaces : \A j \in spaces : j <= i
                  IN  <<SubSeq(text, start + 1, chunk_end)>>
                          \o CharacterChunksFrom(chunker, text,
                                                 chunk_end - chunker.overlap, fuel - 1)

\* _character_based_chunking
CharacterBasedChunking(chunker, text) ==
    CharacterChunksFrom(chunker, text, 0, Len(text) + 1)

\* re.split(r'(?<=[.!?])\s+', content) from position i on, the sentence
\* that is being read having started at from
RECURSIVE SentencesFrom(_, _, _)
SentencesFrom(t, i, from) ==
    IF i > Len(t) THEN <<SubSeq(t, from, Len(t))>>
    ELSE IF IsSpace(t[i]) /\ i > 1 /\ t[i - 1] \in {".", "!", "?"}
         THEN <<SubSeq(t, from, i - 1)>>
                  \o SentencesFrom(t, SkipSpaces(t, i), SkipSpaces(t, i))
         ELSE SentencesFrom(t, i + 1, from)

SplitSentences(content) == SentencesFrom(content, 1, 1)

\* the "(cont.) " of a continuation
Cont == <<"(", "c", "o", "n", "t", ".", ")", " ">>

\* _split_paragraph_fine_grained, its loop over the sentences from the k-th
\* on: current_chunk and chunks as they are before it
RECURSIVE SentenceLoop(_, _, _, _, _, _)
SentenceLoop(chunker, para_num, sentences, k, current_chunk, chunks) ==
    IF k > Len(sentences)
    THEN IF current_chunk # <<>> THEN Append(chunks, current_chunk) ELSE chunks
    ELSE LET sentence == sentences[k]
         IN  IF Len(current_chunk) + Len(sentence) <= chunker.chunk_size
             THEN SentenceLoop(chunker, para_num, sentences, k + 1,
                      current_chunk
                          \o (IF current_chunk # <<>> /\ current_chunk # para_num
                              THEN <<" ">> ELSE <<>>)
                          \o sentence,
                      chunks)
             ELSE SentenceLoop(chunker, para_num, sentences, k + 1,
                      IF chunker.PRESERVE_PARAGRAPH_NUMBERS
                      THEN para_num \o Cont \o sentence
                      ELSE sentence,
                      IF current_chunk # <<>> THEN Append(chunks, current_chunk)
                      ELSE chunks)

\* re.match(r'^(\[\d+\]\s*)', paragraph): the paragraph number, "" if none
ParagraphNumberOf(paragraph) ==
    LET k == MatchNumberAt(paragraph, 1)
    IN  IF k = 0 THEN <<>> ELSE SubSeq(paragraph, 1, SkipSpaces(paragraph, k) - 1)

\* _split_paragraph_fine_grained
SplitParagraphFineGrained(chunker, paragraph) ==
    IF Len(paragraph) <= chunker.chunk_size THEN <<paragraph>>
    ELSE LET para_num == ParagraphNumberOf(paragraph)
             content  == SubSeq(paragraph, Len(para_num) + 1, Len(paragraph))
         IN  IF chunker.SPLIT_ON_SENTENCES
             THEN SentenceLoop(chunker, para_num, SplitSentences(content), 1,
                               para_num, <<>>)
             ELSE CharacterBasedChunking(chunker, paragraph)

\* what the loop of _selective_splitting adds to 'processed' for one
\* paragraph: the test is against the CHUNK_SIZE of the configuration, the
\* split against the chunk_size of the chunker
Splits(chunker, para) ==
    IF Len(para) > chunker.CHUNK_SIZE
    THEN SplitParagraphFineGrained(chunker, para)
    ELSE <<para>>

\* _selective_splitting
SelectiveSplitting(chunker, paragraphs) ==
    Flatten([i \in 1..Len(paragraphs) |-> Splits(chunker, paragraphs[i])])

\* _group_paragraphs_semantically
GroupParagraphsSemantically(chunker, paragraphs) ==
    IF paragraphs = <<>> THEN paragraphs
    ELSE IF chunker.STRATEGY = "preserve_paragraphs" THEN paragraphs
    ELSE IF chunker.STRATEGY = "split_large_paragraphs"
         THEN SelectiveSplitting(chunker, paragraphs)
         ELSE paragraphs

\* re.search(r'\n\s*\[\d+\]', text): where the first match starts, 0 if none
RECURSIVE FirstParagraphStart(_, _)
FirstParagraphStart(t, i) ==
    IF i > Len(t) THEN 0
    ELSE IF MatchParagraphStartAt(t, i) # 0 THEN i
         ELSE FirstParagraphStart(t, i + 1)

\* the overlap taken from the start of the previous chunk
OverlapTextFromStart(chunker, prev_chunk) ==
    LET overlap_text == IF Len(prev_chunk) > chunker.overlap
                        THEN SubSeq(prev_chunk, 1, chunker.overlap)
                        ELSE prev_chunk
        para_match   == FirstParagraphStart(overlap_text, 1)
    IN  IF para_match # 0
        THEN SubSeq(overlap_text, para_match, Len(overlap_text))
        ELSE overlap_text

\* _add_overlap: the text put before chunk i
OverlapText(chunker, prev_chunk) ==
    LET overlap_text == IF Len(prev_chunk) > chunker.overlap
                        THEN SubSeq(prev_chunk, Len(prev_chunk) - chunker.overlap + 1,
                                    Len(prev_chunk))
                        ELSE prev_chunk
        para_match   == FirstParagraphStart(overlap_text, 1)
    IN  IF para_match # 0
        THEN SubSeq(overlap_text, para_match, Len(overlap_text))
        ELSE overlap_text

\* _add_overlap
AddOverlap(chunker, chunks) ==
    IF Len(chunks) <= 1 \/ chunker.overlap <= 0 THEN chunks
    ELSE [i \in 1..Len(chunks) |->
            IF i = 1 THEN chunks[1]
            ELSE OverlapText(chunker, chunks[i - 1]) \o chunks[i]]

\* create_chunks up to the overlap: grouped_chunks and strategy_used
GroupedChunks(chunker, text) ==
    LET paragraphs == SplitByLegalParagraphs(text)
    IN  IF Len(paragraphs) > 1
        THEN [grouped_chunks |-> GroupParagraphsSemantically(chunker, paragraphs),
              strategy_used  |-> "legal_paragraphs"]
        ELSE LET sections == SplitBySections(text)
             IN  IF Len(sections) > 1
                 THEN [grouped_chunks |->
                          Flatten([i \in 1..Len(sections) |->
                              IF Len(sections[i]) <= chunker.chunk_size
                              THEN <<sections[i]>>
                              ELSE CharacterBasedChunking(chunker, sections[i])]),
                       strategy_used |-> "sections"]
                 ELSE [grouped_chunks |-> CharacterBasedChunking(chunker, text),
                       strategy_used  |-> "character"]

\* create_chunks, its last loop: the chunks, each with its text and the
\* metadata the chunker adds
ChunkDictionaries(final_chunks, strategy_used) ==
    [i \in 1..Len(final_chunks) |->
        [text           |-> final_chunks[i],
         chunk_index    |-> i - 1,
         chunk_count    |-> Len(final_chunks),
         chunk_strategy |-> strategy_used,
         chunk_size     |-> Len(final_chunks[i])]]

\* create_chunks
CreateChunks(chunker, text) ==
    IF text = <<>> \/ Strip(text) = <<>> THEN <<>>
    ELSE LET g == GroupedChunks(chunker, text)
         IN  ChunkDictionaries(AddOverlap(chunker, g.grouped_chunks), g.strategy_used)

\* LegalTextChunker.__init__: a chunk_size or an overlap of 0 (or None)
\* gives way to the configuration's
NewChunker(chunk_size, overlap, config) ==
    [chunk_size |-> IF chunk_size # 0 THEN chunk_size ELSE config.CHUNK_SIZE,
     overlap    |-> IF overlap # 0 THEN overlap ELSE config.OVERLAP_SIZE,
     STRATEGY   |-> config.STRATEGY,
     CHUNK_SIZE |-> config.CHUNK_SIZE,
     SPLIT_ON_SENTENCES |-> config.SPLIT_ON_SENTENCES,
     PRESERVE_PARAGRAPH_NUMBERS |-> config.PRESERVE_PARAGRAPH_NUMBERS]

\* what document bodies are put together from: paragraph numbers at the
\* start of the text and after newlines, a sentence, a blank and a long word
Pieces ==
    { <<"[", "1", "]", " ">>,
      <<"\n", "\n", "[", "2", "]", " ">>,
      <<"a", "b", ".", " ">>,
      <<" ", " ">>,
      <<"x", "x", "x", "x", "x", "x", "x", "x", "x", "x">> }

Bodies == {Flatten(ps) : ps \in UNION {[1..n -> Pieces] : n \in 0..MaxPieces}}

\* the configurations (config.py:9-33) and the arguments of create_chunker
ChunkingConfigs ==
    [STRATEGY : {"preserve_paragraphs", "split_large_paragraphs"},
     CHUNK_SIZE : {CHUNK_SIZE},
     OVERLAP_SIZE : {0, OVERLAP_SIZE},
     SPLIT_ON_SENTENCES : BOOLEAN,
     PRESERVE_PARAGRAPH_NUMBERS : BOOLEAN]

ChunkSizeArguments == {0, CHUNK_SIZE - 2, CHUNK_SIZE + 4}
OverlapArguments == {0, 1, (CHUNK_SIZE + 4) \div 2}

\* the chunkers whose character fallback moves its window forward
Chunkers ==
    {k \in {NewChunker(c, o, config) : c \in ChunkSizeArguments,
                                       o \in OverlapArguments,
                                       config \in ChunkingConfigs} :
        k.overlap <= k.chunk_size \div 2}

ChunkInit ==
    /\ OfflineInit
    /\ QueryOff
    /\ call \in [fn : {"create_chunks"}, returned : {FALSE},
                 chunker : Chunkers, text : Bodies]
    /\ result = <<>>

\* create_chunks(text); grouped_chunks is kept with the result
CreateChunksCall ==
    /\ call.fn = "create_chunks"
    /\ ~call.returned
    /\ IF call.text = <<>> \/ Strip(call.text) = <<>>
       THEN result' = [grouped_chunks |-> <<>>, chunks |-> <<>>]
       ELSE \E g \in {GroupedChunks(call.chunker, call.text)} :
            \E final_chunks \in {AddOverlap(call.chunker, g.grouped_chunks)} :
               result' = [grouped_chunks |-> g.grouped_chunks,
                          chunks |-> ChunkDictionaries(final_chunks, g.strategy_used)]
    /\ call' = [call EXCEPT !.returned = TRUE]
    /\ UNCHANGED <<ovars, qvars>>

ChunkNext == CreateChunksCall

ChunkSpec == ChunkInit /\ [][ChunkNext]_vars

(***************************************************************************)
(* _character_based_chunking, one turn of its while loop at a time.        *)
(***************************************************************************)
\* text[i] of Python, i counted from 0: a negative i counts from the end;
\* "IndexError" outside the string
Index(text, i) ==
    IF i >= 0 /\ i < Len(text) THEN text[i + 1]
    ELSE IF i < 0 /\ i >= 0 - Len(text) THEN text[Len(text) + i + 1]
    ELSE "IndexError"

\* where a slice bound of Python lies in a string of length n
SliceBound(n, i) ==
    IF i < 0 THEN (IF n + i < 0 THEN 0 ELSE n + i)
    ELSE IF i > n THEN n ELSE i

\* text[from:to] of Python
Slice(text, from, to) ==
    SubSeq(text, SliceBound(Len(text), from) + 1, SliceBound(Len(text), to))

\* the for loop over range(end, max(start + chunk_size // 2, end - 100), -1):
\* the i it breaks at, end when no character read is a blank; it raises
\* when a character read before that lies outside the string
RECURSIVE WordBoundaryFrom(_, _, _, _)
WordBoundaryFrom(text, i, lowest, end) ==
    IF i <= lowest THEN [raises |-> FALSE, chunk_end |-> end]
    ELSE IF Index(text, i) = "IndexError" THEN [raises |-> TRUE, chunk_end |-> end]
    ELSE IF IsSpace(Index(text, i)) THEN [raises |-> FALSE, chunk_end |-> i]
    ELSE WordBoundaryFrom(text, i - 1, lowest, end)

\* the for loop of the turn whose window starts at start
ChunkEnd(chunker, text, start) ==
    WordBoundaryFrom(text, start + chunker.chunk_size,
                     Max(start + (chunker.chunk_size \div 2),
                         start + chunker.chunk_size - 100),
                     start + chunker.chunk_size)

\* the chunkers with 0 <= overlap < chunk_size
ChunkersBelowChunkSize ==
    {k \in {NewChunker(c, o, config) : c \in ChunkSizeArguments,
                                       o \in OverlapArguments,
                                       config \in ChunkingConfigs} :
        0 <= k.overlap /\ k.overlap < k.chunk_size}

\* a call of _character_based_chunking(text): chunks = [], start = 0
CharacterInit ==
    /\ OfflineInit
    /\ QueryOff
    /\ call \in [fn : {"_character_based_chunking"}, returned : {FALSE},
                 raised : {FALSE}, start : {0},
                 chunker : ChunkersBelowChunkSize, text : Bodies]
    /\ result = <<>>

CharacterRunning ==
    /\ call.fn = "_character_based_chunking"
    /\ ~call.returned
    /\ ~call.raised

\* the while condition is false: return chunks
CharacterLoopEnds ==
    /\ CharacterRunning
    /\ call.start >= Len(call.text)
    /\ call' = [call EXCEPT !.returned = TRUE]
    /\ UNCHANGED result
    /\ UNCHANGED <<ovars, qvars>>

\* a turn of the loop that takes the last chunk and breaks: return chunks
CharacterLastChunk ==
    /\ CharacterRunning
    /\ call.start < Len(call.text)
    /\ call.start + call.chunker.chunk_size >= Len(call.text)
    /\ result' = Append(result, Slice(call.text, call.start, Len(call.text)))
    /\ call' = [call EXCEPT !.returned = TRUE]
    /\ UNCHANGED <<ovars, qvars>>

\* a turn of the loop that takes a chunk and sets the next start; a run that
\* has taken more chunks than the text has characters is not followed further
CharacterWindow ==
    /\ CharacterRunning
    /\ call.start < Len(call.text)
    /\ call.start + call.chunker.chunk_size < Len(call.text)
    /\ Len(result) <= Len(call.text)
    /\ \E loop \in {ChunkEnd(call.chunker, call.text, call.start)} :
          IF loop.raises
          THEN /\ call' = [call EXCEPT !.raised = TRUE]
               /\ UNCHANGED result
          ELSE /\ result' = Append(result, Slice(call.text, call.start, loop.chunk_end))
               /\ call' = [call EXCEPT !.start = loop.chunk_end - call.chunker.overlap]
    /\ UNCHANGED <<ovars, qvars>>

CharacterNext ==
    \/ CharacterLoopEnds
    \/ CharacterLastChunk
    \/ CharacterWindow

CharacterSpec == CharacterInit /\ [][CharacterNext]_vars

\* create_chunks has returned
Chunked == call.fn = "create_chunks" /\ call.returned

(***************************************************************************)
(* Properties of the chunker.                                              *)
(***************************************************************************)
\* C15: under the split_large_paragraphs strategy every chunk's core text
\* (the chunk before the overlap is put in front) is at most as long as the
\* chunk_size the chunker was constructed with.
C15_CoreTextWithinChunkSize ==
    (Chunked /\ call.chunker.STRATEGY = "split_large_paragraphs") =>
        \A i \in 1..Len(result.grouped_chunks) :
            Len(result.grouped_chunks[i]) <= call.chunker.chunk_size

\* the texts that are at least as long as length / chunk_size, rounded up
EnoughFragments(fragments, length, chunk_size) ==
    Len(fragments) * chunk_size >= length

\* C16: under split_large_paragraphs with the paragraph numbers preserved, a
\* numbered paragraph no longer than chunk_size stays whole in its own chunk,
\* and a paragraph [n] longer than chunk_size becomes at least
\* ceil(length / chunk_size) fragments, the first starting with "[n]" and
\* every later one with "[n] (cont.)".
C16_LargeParagraphFragments ==
    (/\ Chunked
     /\ call.chunker.STRATEGY = "split_large_paragraphs"
     /\ call.chunker.PRESERVE_PARAGRAPH_NUMBERS
     /\ Len(SplitByLegalParagraphs(call.text)) > 1) =>
        LET paragraphs == SplitByLegalParagraphs(call.text)
        IN  /\ result.grouped_chunks =
                   Flatten([j \in 1..Len(paragraphs) |->
                               Splits(call.chunker, paragraphs[j])])
            /\ \A j \in 1..Len(paragraphs) :
                 LET para      == paragraphs[j]
                     para_num  == ParagraphNumberOf(para)
                     fragments == Splits(call.chunker, para)
                 IN  para_num # <<>> =>
                        IF Len(para) <= call.chunker.chunk_size
                        THEN fragments = <<para>>
                        ELSE /\ EnoughFragments(fragments, Len(para),
                                                call.chunker.chunk_size)
                             /\ StartsWith(fragments[1], Strip(para_num))
                             /\ \A k \in 2..Len(fragments) :
                                   StartsWith(fragments[k],
                                              Strip(para_num) \o <<" ">> \o Strip(Cont))

\* text t holds text p as one piece
Contains(t, p) ==
    \E k \in 1..(Len(t) - Len(p) + 1) : SubSeq(t, k, k + Len(p) - 1) = p

\* C17: under the preserve_paragraphs strategy each numbered paragraph [n] of
\* the document is complete in one chunk's core text, never split across two
\* chunks, even when that chunk is longer than chunk_size.
C17_ParagraphsKeptWhole ==
    (Chunked /\ call.chunker.STRATEGY = "preserve_paragraphs") =>
        LET paragraphs == SplitByLegalParagraphs(call.text)
        IN  \A j \in 1..Len(paragraphs) :
               ParagraphNumberOf(paragraphs[j]) # <<>> =>
                  \E i \in 1..Len(result.grouped_chunks) :
                     Contains(result.grouped_chunks[i], Strip(paragraphs[j]))

\* the last k characters of text t
Suffix(t, k) == SubSeq(t, Len(t) - k + 1, Len(t))

\* C18: for every i > 0 the text of chunk[i] is a suffix of chunk[i-1]'s core
\* text, at most overlap characters long (shorter only when it was trimmed
\* to start at a paragraph number or the core text itself is shorter),
\* followed by chunk[i]'s own core text; chunk[0] has no prefix.
C18_OverlapIsSuffixOfPrevious ==
    Chunked =>
        /\ Len(result.chunks) = Len(result.grouped_chunks)
        /\ Len(result.chunks) > 0 =>
              result.chunks[1].text = result.grouped_chunks[1]
        /\ \A i \in 2..Len(result.chunks) :
              LET prev == result.grouped_chunks[i - 1]
                  most == IF Len(prev) > call.chunker.overlap
                          THEN call.chunker.overlap ELSE Len(prev)
              IN  \E k \in 0..most :
                     /\ result.chunks[i].text =
                            Suffix(prev, k) \o result.grouped_chunks[i]
                     /\ \/ k = most
                        \/ call.chunker.overlap <= 0
                        \/ MatchParagraphStartAt(Suffix(prev, k), 1) # 0

\* a chunk took the last overlap characters of a longer previous chunk
C18_Witness ==
    /\ Chunked
    /\ call.chunker.overlap > 0
    /\ Len(result.chunks) > 2
    /\ \E i \in 2..Len(result.chunks) :
          /\ Len(result.grouped_chunks[i - 1]) > call.chunker.overlap
          /\ result.chunks[i].text =
                 Suffix(result.grouped_chunks[i - 1], call.chunker.overlap)
                    \o result.grouped_chunks[i]
          /\ Suffix(result.grouped_chunks[i - 1], call.chunker.overlap)
                 # SubSeq(result.grouped_chunks[i - 1], 1, call.chunker.overlap)

\* a chunk took less than the last overlap characters of the previous chunk:
\* the overlap was trimmed to start at the paragraph number
C18_TrimmedWitness ==
    /\ Chunked
    /\ \E i \in 2..Len(result.chunks) : \E k \in 1..(call.chunker.overlap - 1) :
          /\ Len(result.grouped_chunks[i - 1]) > k
          /\ MatchParagraphStartAt(Suffix(result.grouped_chunks[i - 1], k), 1) # 0
          /\ result.chunks[i].text =
                 Suffix(result.grouped_chunks[i - 1], k) \o result.grouped_chunks[i]

(***************************************************************************)
(* Properties of the index build.                                          *)
(***************************************************************************)
\* C19: within one index build the ids "{file_name}_{chunk_index}" passed to
\* add_documents over all batches are pairwise distinct, whatever tree of
\* directories ingestion walked, files of the same name in different
\* subdirectories included.
C19_IdsPairwiseDistinct ==
    pc = "index_batches" =>
        \A i, j \in 1..Len(loc.all_chunks) :
            i # j => ChunkId(loc.all_chunks[i]) # ChunkId(loc.all_chunks[j])

(***************************************************************************)
(* Properties of the online flow's input.                                  *)
(***************************************************************************)
\* C20: a query run with an empty query string ends in an error raised by
\* the retrieval stage, and up to that error no classifier call, vector
\* search, judge call, extraction call or synthesis call is made.
C20_EmptyQueryFailsInRetrieval ==
    qshared.user_query = <<>> =>
        /\ qpc \in {"classify", "retrieve", "failed"}
        /\ qpc = "failed" => qhist.failedIn = "retrieval"
        /\ qhist.classifierCalls = 0
        /\ qhist.searchCalls = 0
        /\ qhist.judged = {}
        /\ qhist.extractCalls = 0
        /\ qhist.synthCalls = 0

\* the run with the empty query has ended, in retrieval, with the fallback
\* classification stored
C20_Witness ==
    /\ qshared.user_query = <<>>
    /\ qpc = "failed"
    /\ qhist.failedIn = "retrieval"
    /\ qshared.query_classification = ClassificationFallback

(***************************************************************************)
(* Further properties of the cache.                                        *)
(***************************************************************************)
\* C21: when hashing one file fails while has_changes builds the current
\* manifest, the manifest still has an entry for every .txt file, with the
\* digest of every file that can be read, and has_changes reports a change,
\* whatever the cached manifest holds (a manifest recorded when hashing that
\* file had failed too included).
C21_HashFailureReportsChange ==
    (/\ Len(check) > 0
     /\ \E p \in DOMAIN fs : EndsWithTxt(p) /\ ~fs[p].readable) =>
        /\ DOMAIN GenerateManifest(fs, TRUE) = {p \in DOMAIN fs : EndsWithTxt(p)}
        /\ \A p \in DOMAIN GenerateManifest(fs, TRUE) :
              fs[p].readable =>
                 GenerateManifest(fs, TRUE)[p].hash = Sha256Hex(fs[p].content)
        /\ check[Len(check)].changed

\* the reason a full has_changes gives for a change of the kind
ReasonOf(kind) ==
    CASE kind = "add"    -> "Added files"
      [] kind = "remove" -> "Removed files"
      [] kind = "alter"  -> "Modified files"

\* C22: when a full has_changes reports True after a single change to the
\* recorded corpus (the manifest holds at least one file), its reason names
\* the category of the change: added files after a file was added, removed
\* files after a file was removed, modified files after a byte of a file was
\* altered.
C22_ReasonNamesCategory ==
    (/\ hist.sinceUpdate = 1
     /\ LoadCachedManifest(cacheFile) # EmptyManifest
     /\ hist.lastEdit \in {"add", "remove", "alter"}
     /\ Len(check) > 0
     /\ check[Len(check)].changed) =>
        check[Len(check)].reason = ReasonOf(hist.lastEdit)

\* the two directories hold the same paths with the same bytes and the same
\* permissions, but not the same modification times
OnlyTimesDiffer(dir1, dir2) ==
    /\ DOMAIN dir1 = DOMAIN dir2
    /\ \A p \in DOMAIN dir1 :
          /\ dir1[p].content = dir2[p].content
          /\ dir1[p].readable = dir2[p].readable
    /\ \E p \in DOMAIN dir1 : EndsWithTxt(p) /\ dir1[p].mtime # dir2[p].mtime

\* C23: for two states of the corpus with the same paths and bytes and
\* different modification times, generate_manifest gives every file the same
\* size and hash, and a full has_changes(use_hash=True) against the manifest
\* recorded in the one state reports no change in the other.
C23_TimestampIndependent ==
    /\ [][OnlyTimesDiffer(fs, fs') =>
             \A p \in DOMAIN GenerateManifest(fs, TRUE) :
                /\ GenerateManifest(fs', TRUE)[p].size = GenerateManifest(fs, TRUE)[p].size
                /\ GenerateManifest(fs', TRUE)[p].hash = GenerateManifest(fs, TRUE)[p].hash]_vars
    /\ []((/\ hist.sinceUpdate = 1
           /\ hist.lastEdit = "touch"
           /\ Len(check) > 0) => ~check[Len(check)].changed)

\* C23, its case: the manifest was recorded, then only the modification time
\* of a file moved, and has_changes was called
C23_Witness ==
    /\ hist.sinceUpdate = 1
    /\ hist.lastEdit = "touch"
    /\ Len(check) > 0
    /\ \E p \in DOMAIN fs :
          /\ p \in DOMAIN LoadCachedManifest(cacheFile)
          /\ LoadCachedManifest(cacheFile)[p].modified # fs[p].mtime

\* the statuses a document may have been given so far, in order
StatusHistories ==
    {<<"pending">>, <<"pending", "reading">>,
     <<"pending", "reading", "completed">>, <<"pending", "reading", "error">>}

C25_ClassificationNeverRaises ==
    /\ qhist.failedIn # "classification"
    /\ qpc \notin {"off", "classify"} =>
          \/ qshared.query_classification = ClassifyLegalQueryType("valid")
          \/ /\ qshared.query_classification.query_type = "general"
             /\ qshared.query_classification \in
                   {ClassifyLegalQueryType("malformed"), ClassifyLegalQueryType("raises"),
                    ClassificationFallback}

\* C26: the manifest file is replaced atomically: at every moment a reader
\* of the manifest path finds no file, or the whole manifest of the previous
\* save, or the whole manifest of the new one, never a truncated or partial
\* file
C26_ManifestReplacedAtomically ==
    /\ cacheFile.kind \in {"absent", "json"}
    /\ cacheFile.kind = "json" => JsonDump(JsonLoad(cacheFile.text)) = cacheFile.text

\* C27: at the end of a build that saved the manifest, the manifest records
\* for every file the size and the hash of the content that was ingested and
\* inserted in that build, also when the directory changed while the build
\* was running; so it has an entry for exactly the files ingested
C27_ManifestRecordsIngested ==
    [][(/\ pc = "index_batches"
        /\ pc' = "done"
        /\ hist'.sinceUpdate = 0) =>
          LET manifest == LoadCachedManifest(cacheFile')
              ingested == Range(shared.processed_files)
          IN  /\ DOMAIN manifest = {f.file_path : f \in ingested}
              /\ \A f \in ingested :
                    ~f.error =>
                       /\ f.file_path \in DOMAIN manifest
                       /\ manifest[f.file_path].size = Len(f.content)
                       /\ manifest[f.file_path].hash = Sha256Hex(f.content)]_vars

\* C28: create_chunks terminates for every text and every configuration with
\* 0 <= overlap < chunk_size: each turn of the character fallback's loop
\* sets the window start strictly further on, and no turn raises, until the
\* end of the text is reached
C28_WindowMovesForward ==
    [][(CharacterRunning /\ ~call'.returned) =>
          /\ ~call'.raised
          /\ call'.start > call.start]_vars

\* C29: no step of the indexing flow deletes an index entry: over builds and
\* re-builds the set of entry ids in the collection only grows, so the
\* entries of a file removed from the corpus are still in the collection
\* after the re-index
C29_EntriesOnlyGrow ==
    [][/\ collection.ids \subseteq collection'.ids
       /\ collection.exists => collection'.exists]_vars

\* C29, its case: a re-index has saved a manifest without a file whose
\* entries are in the collection, the file being gone from the directory
C29_Witness ==
    /\ pc = "done"
    /\ ~shared.indexing_skipped
    /\ cacheFile.kind = "json"
    /\ \E id \in collection.ids :
          /\ \A p \in DOMAIN fs : FileName(p) # id[1]
          /\ \A p \in DOMAIN LoadCachedManifest(cacheFile) : FileName(p) # id[1]

\* the chunks handed to add_documents so far, call after call
Inserted == Flatten(hist.batches)

=============================================================================
